---- MODULE Spec2Model ----
(***************************************************************************)
(* Model of the xiaomi BLE clock-sync tool (src/xiaomi/src).               *)
(*                                                                         *)
(*   ble.rs   decode_advertisement, sync_device_args, sync_xiaomi_clock    *)
(*   main.rs  sync: the callback on_received, the drain loop process_data  *)
(*            and the teardown of the session                              *)
(*   lib.rs   DeviceConfig, get_timezone_diff_hour, get_unix_epoc          *)
(*                                                                         *)
(* Spec      one sync session: callback threads of the BLE stack, the      *)
(*           session lock, the HandledSet, the log queue, the main thread  *)
(* SpecTime  the time computation of sync_xiaomi_clock on its arguments    *)
(* SpecBuffer, SpecDecode, SpecScan, SpecAddress, SpecParse: the clock     *)
(*           buffer, the decoder, the scan aggregator and the address text *)
(* SpecLocks the sync session with every Mutex acquisition as a step       *)
(***************************************************************************)
EXTENDS Integers, Sequences, FiniteSets, TLC

(***************************************************************************)
(* Bounds of the model.                                                    *)
(***************************************************************************)
\* advertisements the BLE stack delivers in one session
MaxAdverts == 2
\* services / characteristics a GATT query may return
MaxFound == 1
\* epochs 0..MaxEpoch and offsets -(MaxEpoch+2)..(MaxEpoch+2) of SpecTime
MaxEpoch == 4

(***************************************************************************)
(* Option<T>: None is the empty tuple, Some(x) the one-element tuple.      *)
(***************************************************************************)
None == <<>>

Some(x) == <<x>>

IsSome(o) == Len(o) = 1

Unwrap(o) == o[1]

(***************************************************************************)
(* Rust integer arithmetic: / and % truncate toward zero, `as i8` wraps.   *)
(***************************************************************************)
Quot(a, b) == IF a >= 0 THEN a \div b ELSE -((-a) \div b)

Rem(a, b) == a - b * Quot(a, b)

AsI8(x) == ((x + 128) % 256) - 128

I8 == (-128)..127

(***************************************************************************)
(* ble.rs: constants and decode_advertisement.                             *)
(***************************************************************************)
ENVIRONMENTAL_SENSING_SERVICE_UUID == "0000181a-0000-1000-8000-00805f9b34fb"

LYWSD02_SERVICE_UUID == "ebe0ccb07a0a4b0c8a1a6ff2997da3a6"

LYWSD02_CHARACTERISTIC_TIME_UUID == "ebe0ccb77a0a4b0c8a1a6ff2997da3a6"

\* some other advertised service
OTHER_SERVICE_UUID == "0000180f-0000-1000-8000-00805f9b34fb"

\* the data type of a service-data section (ble.rs:59)
ServiceDataType == 22

\* AdvertisementKind; value is in tenths for Temperature and Humidity (the
\* code divides by 10.0) and in percent for Battery.  "Panic" is the outcome
\* of an index out of the bounds of the section's bytes.
Kind(k, a, v) == [kind |-> k, address |-> a, value |-> v]

\* vector[i] of the code (0-based) is data[i + 1]
At(data, i) == data[i + 1]

DecodeServiceData(address, data) ==
    IF Len(data) <= 14 THEN Kind("Panic", 0, 0)
    ELSE IF At(data, 14) \in {4, 6}
         THEN IF Len(data) <= 18 THEN Kind("Panic", 0, 0)
              ELSE Kind(IF At(data, 14) = 4 THEN "Temperature" ELSE "Humidity",
                        address, At(data, 17) + At(data, 18) * 256)
    ELSE IF At(data, 14) = 10
         THEN IF Len(data) <= 17 THEN Kind("Panic", 0, 0)
              ELSE Kind("Battery", address, At(data, 17))
    ELSE Kind("Unknown", 0, 0)

\* mutant of decode_advertisement: the service uuids are not looked at
decode_advertisement_any_service(args) ==
    IF ~IsSome(args) THEN Kind("Unknown", 0, 0)
    ELSE LET adv == Unwrap(args)
             sd == {i \in 1..Len(adv.sections) :
                        adv.sections[i].dataType = ServiceDataType}
         IN  IF sd = {} THEN Kind("Omit", 0, 0)
             ELSE LET first == CHOOSE i \in sd : \A j \in sd : i <= j
                  IN  DecodeServiceData(adv.address, adv.sections[first].data)

decode_advertisement(args) ==
    IF ~IsSome(args) THEN Kind("Unknown", 0, 0)
    ELSE LET adv == Unwrap(args)
             has_xiaomi_service ==
                 /\ adv.services # {}
                 /\ ENVIRONMENTAL_SENSING_SERVICE_UUID \in adv.services
             sd == {i \in 1..Len(adv.sections) :
                        adv.sections[i].dataType = ServiceDataType}
         IN  IF ~has_xiaomi_service THEN Kind("Unknown", 0, 0)
             ELSE IF sd = {} THEN Kind("Omit", 0, 0)
             ELSE LET first == CHOOSE i \in sd : \A j \in sd : i <= j
                  IN  DecodeServiceData(adv.address, adv.sections[first].data)

(***************************************************************************)
(* Advertisements of the session: the received event args.                 *)
(***************************************************************************)
Addresses == {1, 2}

Zeros(n) == [i \in 1..n |-> 0]

\* a service-data payload with sub-type sub and the bytes lo, hi at 17, 18
Payload(sub, lo, hi) == Zeros(14) \o <<sub, 0, 0, lo, hi>>

Section(type, data) == [dataType |-> type, data |-> data]

Advert(a, services, sections) ==
    [address |-> a, services |-> services, sections |-> sections]

Sensor(a, sub, lo, hi) ==
    Advert(a, {ENVIRONMENTAL_SENSING_SERVICE_UUID},
           <<Section(1, <<6>>), Section(ServiceDataType, Payload(sub, lo, hi))>>)

SessionAdverts ==
    {None,
     Some(Sensor(1, 4, 250, 0)),
     Some(Sensor(1, 6, 38, 2)),
     Some(Sensor(2, 4, 250, 0)),
     Some(Sensor(2, 10, 80, 0)),
     Some(Sensor(1, 99, 1, 2)),
     Some(Advert(1, {ENVIRONMENTAL_SENSING_SERVICE_UUID}, <<Section(1, <<6>>)>>))}

(***************************************************************************)
(* lib.rs: DeviceConfig and the registry built by load_config.             *)
(***************************************************************************)
DeviceConfig(name, omit, timezone, offset_seconds) ==
    [name |-> name, omit |-> omit, timezone |-> timezone,
     offset_seconds |-> offset_seconds]

\* chrono_tz: local minus UTC, in seconds, of zones without daylight saving
LocalMinusUtc(tz) ==
    CASE tz = "Asia/Seoul" -> 32400
      [] tz = "Asia/Kolkata" -> 19800
      [] tz = "America/Caracas" -> -14400
      [] OTHER -> 0

get_timezone_diff_hour(device) ==
    IF IsSome(device.timezone)
    THEN Some(AsI8(Quot(LocalMinusUtc(Unwrap(device.timezone)), 3600)))
    ELSE None

\* HashMap<u64, DeviceConfig>: get(address) is None or Some(config)
Registries ==
    { [a \in Addresses |->
          IF a = 1 THEN None
          ELSE Some(DeviceConfig(Some("test1"), Some(TRUE), Some("Asia/Seoul"), Some(32)))],
      [a \in Addresses |->
          IF a = 1 THEN Some(DeviceConfig(None, Some(FALSE), Some("Asia/Kolkata"), Some(120)))
          ELSE Some(DeviceConfig(Some("test2"), None, Some("America/Caracas"), Some(-2000)))] }

\* get_unix_epoc() during the session
SessionEpochs == {1000}

(***************************************************************************)
(* ble.rs: the time computation of sync_xiaomi_clock (lines 218-235).      *)
(***************************************************************************)
\* mutant of ChooseTimezone: the bounds are exclusive
ChooseTimezoneExclusive(timezone_diff_hour) ==
    IF IsSome(timezone_diff_hour)
    THEN IF Unwrap(timezone_diff_hour) > -24 /\ Unwrap(timezone_diff_hour) < 24
         THEN Unwrap(timezone_diff_hour)
         ELSE 9
    ELSE 9

\* lines 219-225
ChooseTimezone(timezone_diff_hour) ==
    IF IsSome(timezone_diff_hour)
    THEN IF Unwrap(timezone_diff_hour) >= -24 /\ Unwrap(timezone_diff_hour) <= 24
         THEN Unwrap(timezone_diff_hour)
         ELSE 9
    ELSE 9

\* mutant of AdjustEpoch: a zero result is committed
AdjustEpochNonNegative(epoch_time, offset_seconds) ==
    IF IsSome(offset_seconds)
    THEN LET temp == epoch_time + Unwrap(offset_seconds)
         IN  IF temp >= 0
             THEN [epoch_time |-> temp, committed |-> TRUE]
             ELSE [epoch_time |-> epoch_time, committed |-> FALSE]
    ELSE [epoch_time |-> epoch_time, committed |-> FALSE]

\* lines 228-235: the epoch of the system clock is below 2^63, so the cast to
\* i64 keeps its value and the sum with an i32 cannot overflow
AdjustEpoch(epoch_time, offset_seconds) ==
    IF IsSome(offset_seconds)
    THEN LET temp == epoch_time + Unwrap(offset_seconds)
         IN  IF temp > 0
             THEN [epoch_time |-> temp, committed |-> TRUE]
             ELSE [epoch_time |-> epoch_time, committed |-> FALSE]
    ELSE [epoch_time |-> epoch_time, committed |-> FALSE]

(***************************************************************************)
(* ble.rs:233: the text of format!("{:+}:{:02}", diff / 60, diff % 60), a  *)
(* sequence of characters.                                                 *)
(***************************************************************************)
DecimalDigits == <<"0", "1", "2", "3", "4", "5", "6", "7", "8", "9">>

RECURSIVE Decimal(_)
\* Display of a non-negative integer
Decimal(n) ==
    IF n < 10 THEN <<DecimalDigits[n + 1]>>
    ELSE Decimal(n \div 10) \o <<DecimalDigits[(n % 10) + 1]>>

\* {:+}: the sign is always written
FormatPlus(n) ==
    IF n >= 0 THEN <<"+">> \o Decimal(n) ELSE <<"-">> \o Decimal(-n)

\* {:02}: zeros fill up to two characters, a "-" counts as one of them
FormatWidth2(n) ==
    IF n >= 0
    THEN IF n < 10 THEN <<"0">> \o Decimal(n) ELSE Decimal(n)
    ELSE <<"-">> \o Decimal(-n)

\* the two numbers of the "Adjust clock" event as the line shows them
FormatAdjust(diff) ==
    FormatPlus(Quot(diff, 60)) \o <<":">> \o FormatWidth2(Rem(diff, 60))

(***************************************************************************)
(* SyncLogKind and the results of sync_xiaomi_clock.                       *)
(***************************************************************************)
\* SyncLogKind::Progress / SyncLogKind::Error; args are the numbers the log
\* text is formatted from.  kind "Step" marks, in a thread's trace only, an
\* operation of the protocol being attempted.
LogEvent(kind, address, msg, args) ==
    [kind |-> kind, address |-> address, msg |-> msg, args |-> args]

Progress(address, msg, args) == LogEvent("Progress", address, msg, args)

Error(address, msg) == LogEvent("Error", address, msg, <<>>)

Step(address, name) == LogEvent("Step", address, name, <<>>)

Ok == <<"Ok">>

Err(msg) == <<"Err", msg>>

IsErr(result) == Len(result) = 2

\* the steps of sync_xiaomi_clock, in the order of the code
StepOrder ==
    <<"Connecting", "ServiceLookup", "CharacteristicLookup", "ComputeTime",
      "Writing", "Done">>

(***************************************************************************)
(* The external GATT queries (ble.rs:184, 202): a transport result, and on *)
(* transport success a status and the number of matches.                   *)
(***************************************************************************)
GattCommunicationStatus == {"Success", "Unreachable"}

QueryResponses ==
    {[transport |-> "Err", status |-> "Success", size |-> 0]}
    \cup {[transport |-> "Ok", status |-> s, size |-> n] :
              s \in GattCommunicationStatus, n \in 0..MaxFound}

NoResponse == [transport |-> "None", status |-> "Success", size |-> 0]

\* mutant of ClassifyQuery: the size is looked at before the status
ClassifyQuerySizeFirst(resp, transportMsg, emptyMsg) ==
    IF resp.transport = "Err" THEN <<"Err", transportMsg>>
    ELSE IF resp.size = 0 THEN <<"Err", emptyMsg>>
    ELSE IF resp.status # "Success" THEN <<"Err", "Communication error">>
    ELSE <<"Ok">>

\* ble.rs:184-198 and 202-216: Err(_), then Status, then Size
ClassifyQuery(resp, transportMsg, emptyMsg) ==
    IF resp.transport = "Err" THEN Err(transportMsg)
    ELSE IF resp.status # "Success" THEN Err("Communication error")
    ELSE IF resp.size = 0 THEN Err(emptyMsg)
    ELSE Ok

(***************************************************************************)
(* State.                                                                  *)
(***************************************************************************)
\* the callback threads of the BLE stack, in the order of its pool
ThreadOrder == <<"cb1", "cb2">>

Threads == {ThreadOrder[i] : i \in 1..Len(ThreadOrder)}

VARIABLES
    config,     \* the registry: address -> Option<DeviceConfig>
    handled,    \* devices: HashSet<u64> of main.rs:80
    lock,       \* the session lock of main.rs:78: owner and poison flag
    cb,         \* per callback thread: position and locals of on_received
    queue,      \* the mpsc channel of main.rs:83: sent, not yet received; a
                \* message of sync is labelled with the invocation of the
                \* coordinator that sent it and its number in the invocation
    printed,    \* the event process_data printed last
    pcMain,     \* position of the main thread in sync
    delivered,  \* advertisements dispatched so far
    runs,       \* per address: calls of sync_xiaomi_clock
    writes,     \* per address: the values written to the clock characteristic
    tin,        \* the arguments of a function checked on its own
    tout,       \* its result
    sensors,    \* scan: HashMap<u64, SensorData> of main.rs:187
    seen,       \* scan: the readings process_data has handled, in order
    mutex,      \* the owners of the Mutex of config (main.rs:76) and of the
                \* Mutex of devices (main.rs:80)
    received    \* process_data: the event received and not yet printed

vars ==
    <<config, handled, lock, cb, queue, printed, pcMain, delivered, runs,
      writes, tin, tout, sensors, seen, mutex, received>>

\* a callback thread of the BLE stack that is not in on_received
Idle ==
    [pc |-> "idle", args |-> None, address |-> 0, timezone_hour |-> None,
     offset_seconds |-> None, epoch_time |-> 0, timezone |-> 0,
     result |-> <<>>, resp |-> NoResponse, trace |-> <<>>, pre |-> {},
     run |-> 0]

\* Mutex::new of main.rs:76 and 80: nobody holds a guard
NoOwner == [config |-> "free", devices |-> "free"]

\* HashMap::new() of main.rs:187: no address has an entry
NoSensors == [a \in Addresses |-> None]

NoTimeInput == [timezone_diff_hour |-> None, offset_seconds |-> None, epoch_time |-> 0]

Init ==
    /\ config \in Registries
    /\ handled = {}
    /\ lock = [owner |-> "free", poisoned |-> FALSE]
    /\ cb = [t \in Threads |-> Idle]
    /\ queue = <<>>
    /\ printed = None
    /\ pcMain = "window"
    /\ delivered = 0
    /\ runs = [a \in Addresses |-> 0]
    /\ writes = [a \in Addresses |-> <<>>]
    /\ tin = NoTimeInput
    /\ tout = None
    /\ sensors = NoSensors
    /\ seen = <<>>
    /\ mutex = NoOwner
    /\ received = None

FirstIdle ==
    LET idle == {i \in 1..Len(ThreadOrder) : cb[ThreadOrder[i]].pc = "idle"}
    IN  ThreadOrder[CHOOSE i \in idle : \A j \in idle : i <= j]

\* the invocations of on_received that have taken the session lock so far
Acquired ==
    delivered - Cardinality({t \in Threads : cb[t].pc \in {"dispatched", "poisoned"}})

\* the messages of the trace: what the thread has sent so far
Sends(trace) == SelectSeq(trace, LAMBDA x : x.kind # "Step")

\* sender.send(ev) by thread t (ble.rs:144, 161, 169): the channel with ev,
\* labelled, at its end
Send(t, ev) ==
    Append(queue, [event |-> ev, run |-> cb[t].run,
                   seq |-> Len(Sends(cb[t].trace)) + 1])

\* the process runs until main returns
Alive == pcMain # "exited"

\* rx is dropped when sync returns (main.rs:83, 180)
RxAlive == pcMain \notin {"returned", "exited"}

(***************************************************************************)
(* ble.rs: the closures of sync_device_args.                               *)
(***************************************************************************)
\* mutant of get_address: a Battery reading is acted on too
get_address_with_battery(args) ==
    LET k == decode_advertisement(args)
    IN  IF k.kind \in {"Temperature", "Humidity", "Battery"}
        THEN Some(k.address) ELSE None

\* lines 107-115
get_address(args) ==
    LET k == decode_advertisement(args)
    IN  IF k.kind \in {"Temperature", "Humidity"} THEN Some(k.address) ELSE None

\* mutant of is_handled: the set is not consulted
is_handled_never(address) == FALSE

\* lines 118-121
is_handled(address) == address \in handled

\* lines 124-131
is_omit(address) ==
    IF IsSome(config[address])
    THEN IF IsSome(Unwrap(config[address]).omit)
         THEN Unwrap(Unwrap(config[address]).omit)
         ELSE FALSE
    ELSE FALSE

\* mutant of Insert: the set is replaced
InsertReplacing(set, address) == {address}

\* handled_devices.insert(address), lines 142 and 158
Insert(set, address) == set \cup {address}

(***************************************************************************)
(* main.rs: on_received, the callback of the BLE stack (lines 92-96).      *)
(***************************************************************************)
\* a panic of the callback: the guard of the session lock is dropped while
\* unwinding, which releases the lock and poisons it
PanicIn(t) ==
    /\ cb' = [cb EXCEPT ![t].pc = "panicked"]
    /\ lock' = IF lock.owner = t
               THEN [owner |-> "free", poisoned |-> TRUE]
               ELSE lock

\* the BLE stack invokes the handler with a received advertisement, on the
\* first thread of its pool that is not in the handler
Dispatch(t) ==
    /\ pcMain = "window"
    /\ cb[t].pc = "idle"
    /\ t = FirstIdle
    /\ delivered < MaxAdverts
    /\ \E args \in SessionAdverts :
           cb' = [cb EXCEPT ![t] = [Idle EXCEPT !.pc = "dispatched", !.args = args]]
    /\ delivered' = delivered + 1
    /\ UNCHANGED <<config, handled, lock, queue, printed, pcMain, runs, writes,
                   tin, tout, sensors, seen, mutex, received>>

\* mutant of AcquireLock: the callback does not wait for the lock
AcquireLockNoWait(t) ==
    /\ Alive
    /\ cb[t].pc = "dispatched"
    /\ cb' = [cb EXCEPT ![t].pc = "locked", ![t].pre = handled,
                        ![t].run = Acquired + 1]
    /\ lock' = [lock EXCEPT !.owner = t]
    /\ UNCHANGED <<config, handled, queue, printed, pcMain, delivered, runs,
                   writes, tin, tout, sensors, seen, mutex, received>>

\* line 93: lock_clone.lock().unwrap()
AcquireLock(t) ==
    /\ Alive
    /\ cb[t].pc = "dispatched"
    /\ lock.owner = "free"
    /\ IF lock.poisoned
       THEN /\ cb' = [cb EXCEPT ![t].pc = "poisoned"]
            /\ UNCHANGED lock
       ELSE /\ cb' = [cb EXCEPT ![t].pc = "locked", ![t].pre = handled,
                               ![t].run = Acquired + 1]
            /\ lock' = [lock EXCEPT !.owner = t]
    /\ UNCHANGED <<config, handled, queue, printed, pcMain, delivered, runs,
                   writes, tin, tout, sensors, seen, mutex, received>>

\* ble.rs:135-153: the decision of sync_device_args
Decide(t) ==
    /\ Alive
    /\ cb[t].pc = "locked"
    /\ IF decode_advertisement(cb[t].args).kind = "Panic"
       THEN /\ PanicIn(t)
            /\ UNCHANGED <<handled, queue, runs>>
       ELSE IF ~IsSome(get_address(cb[t].args))
       THEN /\ cb' = [cb EXCEPT ![t].pc = "return"]
            /\ UNCHANGED <<handled, queue, runs, lock>>
       ELSE LET address == Unwrap(get_address(cb[t].args))
            IN  IF is_handled(address)
                THEN /\ cb' = [cb EXCEPT ![t].pc = "return", ![t].address = address]
                     /\ UNCHANGED <<handled, queue, runs, lock>>
                ELSE IF is_omit(address)
                THEN /\ handled' = Insert(handled, address)
                     /\ UNCHANGED runs
                     /\ IF RxAlive
                        THEN LET ev == Progress(address, "Configured as Omit", <<>>)
                             IN  /\ queue' = Send(t, ev)
                                 /\ cb' = [cb EXCEPT ![t].pc = "return",
                                                     ![t].address = address,
                                                     ![t].trace = <<ev>>]
                                 /\ UNCHANGED lock
                        ELSE /\ PanicIn(t)
                             /\ UNCHANGED queue
                ELSE /\ cb' = [cb EXCEPT
                           ![t].pc = "Connecting",
                           ![t].address = address,
                           ![t].timezone_hour =
                               IF IsSome(config[address])
                               THEN get_timezone_diff_hour(Unwrap(config[address]))
                               ELSE None,
                           ![t].offset_seconds =
                               IF IsSome(config[address])
                               THEN Unwrap(config[address]).offset_seconds
                               ELSE None]
                     /\ runs' = [runs EXCEPT ![address] = @ + 1]
                     /\ UNCHANGED <<handled, queue, lock>>
    /\ UNCHANGED <<config, printed, pcMain, delivered, writes, tin, tout, sensors, seen, mutex, received>>

(***************************************************************************)
(* ble.rs: sync_xiaomi_clock (lines 172-256), one action per external      *)
(* call.  A send to the channel whose receiver is dropped fails, and the   *)
(* unwrap() of its result panics.                                          *)
(***************************************************************************)
\* the thread goes on to position pc with its trace extended by items
Goto(t, pc, items) ==
    [cb[t] EXCEPT !.pc = pc, !.trace = cb[t].trace \o items]

\* mutant of Connect: the session lock is released before the connect, as if
\* it covered the checks of the coordinator only
ConnectUnlocked(t) ==
    /\ Alive
    /\ cb[t].pc = "Connecting"
    /\ RxAlive
    /\ LET ev == Progress(cb[t].address, "Connecting...", <<>>)
           items == <<ev, Step(cb[t].address, "Connecting")>>
       IN  /\ queue' = Send(t, ev)
           /\ \/ cb' = [cb EXCEPT ![t] = Goto(t, "ServiceLookup", items)]
              \/ cb' = [cb EXCEPT ![t] =
                           [Goto(t, "finish", items) EXCEPT
                               !.result = Err("Failed to connect")]]
    /\ lock' = [lock EXCEPT !.owner = "free"]
    /\ UNCHANGED <<config, handled, printed, pcMain, delivered, runs, writes,
                   tin, tout, sensors, seen, mutex, received>>

\* lines 173-180
Connect(t) ==
    /\ Alive
    /\ cb[t].pc = "Connecting"
    /\ IF RxAlive
       THEN LET ev == Progress(cb[t].address, "Connecting...", <<>>)
                items == <<ev, Step(cb[t].address, "Connecting")>>
            IN  /\ queue' = Send(t, ev)
                /\ \/ cb' = [cb EXCEPT ![t] = Goto(t, "ServiceLookup", items)]
                   \/ cb' = [cb EXCEPT ![t] =
                                [Goto(t, "finish", items) EXCEPT
                                    !.result = Err("Failed to connect")]]
                /\ UNCHANGED lock
       ELSE /\ PanicIn(t)
            /\ UNCHANGED queue
    /\ UNCHANGED <<config, handled, printed, pcMain, delivered, runs, writes,
                   tin, tout, sensors, seen, mutex, received>>

\* a lookup step answered by one of responses: the Progress event, the
\* query, the classification
LookupOn(responses, t, step, msg, transportMsg, emptyMsg, next) ==
    /\ Alive
    /\ cb[t].pc = step
    /\ IF RxAlive
       THEN LET ev == Progress(cb[t].address, msg, <<>>)
                items == <<ev, Step(cb[t].address, step)>>
            IN  /\ queue' = Send(t, ev)
                /\ \E resp \in responses :
                       LET res == ClassifyQuery(resp, transportMsg, emptyMsg)
                       IN  cb' = [cb EXCEPT ![t] =
                                     IF res = Ok
                                     THEN Goto(t, next, items)
                                     ELSE [Goto(t, "finish", items) EXCEPT
                                              !.resp = resp, !.result = res]]
                /\ UNCHANGED lock
       ELSE /\ PanicIn(t)
            /\ UNCHANGED queue
    /\ UNCHANGED <<config, handled, printed, pcMain, delivered, runs, writes,
                   tin, tout, sensors, seen, mutex, received>>

\* a lookup step answered by any response
Lookup(t, step, msg, transportMsg, emptyMsg, next) ==
    LookupOn(QueryResponses, t, step, msg, transportMsg, emptyMsg, next)

\* lines 182-198
QueryService(t) ==
    Lookup(t, "ServiceLookup", "Querying service, UUID=" \o LYWSD02_SERVICE_UUID,
           "Failed to query service", "No services returned",
           "CharacteristicLookup")

\* lines 200-216
QueryCharacteristic(t) ==
    Lookup(t, "CharacteristicLookup",
           "Querying characteristic, UUID=" \o LYWSD02_CHARACTERISTIC_TIME_UUID,
           "Failed to query characteristic", "No characteristic returned",
           "ComputeTime")

\* lines 218-235
ComputeTime(t) ==
    /\ Alive
    /\ cb[t].pc = "ComputeTime"
    /\ \E now \in SessionEpochs :
           LET adj == AdjustEpoch(now, cb[t].offset_seconds)
               diff == Unwrap(cb[t].offset_seconds)
               ev == Progress(cb[t].address, "Adjust clock",
                              <<Quot(diff, 60), Rem(diff, 60)>>)
               step == Step(cb[t].address, "ComputeTime")
               to(items) == [Goto(t, "Writing", items) EXCEPT
                                !.epoch_time = adj.epoch_time,
                                !.timezone = ChooseTimezone(cb[t].timezone_hour)]
           IN  IF adj.committed
               THEN IF RxAlive
                    THEN /\ queue' = Send(t, ev)
                         /\ cb' = [cb EXCEPT ![t] = to(<<step, ev>>)]
                         /\ UNCHANGED lock
                    ELSE /\ PanicIn(t)
                         /\ UNCHANGED queue
               ELSE /\ cb' = [cb EXCEPT ![t] = to(<<step>>)]
                    /\ UNCHANGED <<queue, lock>>
    /\ UNCHANGED <<config, handled, printed, pcMain, delivered, runs, writes,
                   tin, tout, sensors, seen, mutex, received>>

\* lines 237-255
WriteValue(t) ==
    /\ Alive
    /\ cb[t].pc = "Writing"
    /\ LET a == cb[t].address
           step == Step(a, "Writing")
           ev == Progress(a, "Sync clock", <<cb[t].epoch_time, cb[t].timezone>>)
       IN  \/ /\ cb' = [cb EXCEPT ![t] =
                           [Goto(t, "finish", <<step>>) EXCEPT
                               !.result = Err("Failed to sync time")]]
              /\ UNCHANGED <<queue, lock, writes>>
           \/ /\ writes' = [writes EXCEPT ![a] =
                               Append(@, [epoch_time |-> cb[t].epoch_time,
                                          timezone |-> cb[t].timezone])]
              /\ IF RxAlive
                 THEN /\ queue' = Send(t, ev)
                      /\ cb' = [cb EXCEPT ![t] =
                                   [Goto(t, "finish", <<step, Step(a, "Done"), ev>>)
                                       EXCEPT !.result = Ok]]
                      /\ UNCHANGED lock
                 ELSE /\ PanicIn(t)
                      /\ UNCHANGED queue
    /\ UNCHANGED <<config, handled, printed, pcMain, delivered, runs, tin, tout, sensors, seen, mutex, received>>

\* mutant of Finish: the address is inserted after a failed run too
FinishInsertAlways(t) ==
    /\ Alive
    /\ cb[t].pc = "finish"
    /\ handled' = Insert(handled, cb[t].address)
    /\ IF cb[t].result = Ok
       THEN /\ cb' = [cb EXCEPT ![t].pc = "return"]
            /\ UNCHANGED <<queue, lock>>
       ELSE IF RxAlive
            THEN LET ev == Error(cb[t].address, cb[t].result[2])
                 IN  /\ queue' = Send(t, ev)
                     /\ cb' = [cb EXCEPT ![t] = Goto(t, "return", <<ev>>)]
                     /\ UNCHANGED lock
            ELSE /\ PanicIn(t)
                 /\ UNCHANGED queue
    /\ UNCHANGED <<config, printed, pcMain, delivered, runs, writes, tin, tout, sensors, seen, mutex, received>>

\* ble.rs:155-163: the match on the result of sync_xiaomi_clock
Finish(t) ==
    /\ Alive
    /\ cb[t].pc = "finish"
    /\ IF cb[t].result = Ok
       THEN /\ handled' = Insert(handled, cb[t].address)
            /\ cb' = [cb EXCEPT ![t].pc = "return"]
            /\ UNCHANGED <<queue, lock>>
       ELSE /\ UNCHANGED handled
            /\ IF RxAlive
               THEN LET ev == Error(cb[t].address, cb[t].result[2])
                    IN  /\ queue' = Send(t, ev)
                        /\ cb' = [cb EXCEPT ![t] = Goto(t, "return", <<ev>>)]
                        /\ UNCHANGED lock
               ELSE /\ PanicIn(t)
                    /\ UNCHANGED queue
    /\ UNCHANGED <<config, printed, pcMain, delivered, runs, writes, tin, tout, sensors, seen, mutex, received>>

\* main.rs:95-96: the handler returns and drops the guard of the session lock
Return(t) ==
    /\ Alive
    /\ cb[t].pc = "return"
    /\ cb' = [cb EXCEPT ![t] = Idle]
    /\ lock' = [lock EXCEPT !.owner = "free"]
    /\ UNCHANGED <<config, handled, queue, printed, pcMain, delivered, runs,
                   writes, tin, tout, sensors, seen, mutex, received>>

(***************************************************************************)
(* main.rs: the main thread in sync (lines 160-180).                       *)
(***************************************************************************)
\* mutant of Receive: the event sent last is received first
ReceiveLast ==
    /\ queue # <<>>
    /\ printed' = Some(queue[Len(queue)])
    /\ queue' = SubSeq(queue, 1, Len(queue) - 1)

\* process_data (lines 98-130) when recv_timeout returns an event
Receive ==
    /\ queue # <<>>
    /\ printed' = Some(Head(queue))
    /\ queue' = Tail(queue)

\* mutant of Drain: the main thread takes the session lock for its loop
DrainLocked ==
    /\ pcMain = "window"
    /\ lock.owner \in {"free", "main"}
    /\ Receive
    /\ lock' = [lock EXCEPT !.owner = "main"]
    /\ UNCHANGED <<config, handled, cb, pcMain, delivered, runs, writes,
                   tin, tout, sensors, seen, mutex, received>>

\* lines 161-163: the loop of the observation window
Drain ==
    /\ pcMain = "window"
    /\ Receive
    /\ UNCHANGED <<config, handled, lock, cb, pcMain, delivered, runs, writes,
                   tin, tout, sensors, seen, mutex, received>>

\* line 166: the window is over, watcher.RemoveReceived(token)
RemoveReceived ==
    /\ pcMain = "window"
    /\ pcMain' = "stopping"
    /\ UNCHANGED <<config, handled, lock, cb, queue, printed, delivered, runs,
                   writes, tin, tout, sensors, seen, mutex, received>>

\* line 171: lock.lock().unwrap(); a poisoned lock makes main panic
TeardownLock ==
    /\ pcMain = "stopping"
    /\ lock.owner = "free"
    /\ IF lock.poisoned
       THEN /\ pcMain' = "exited"
            /\ UNCHANGED lock
       ELSE /\ pcMain' = "sweep"
            /\ lock' = [lock EXCEPT !.owner = "main"]
    /\ UNCHANGED <<config, handled, cb, queue, printed, delivered, runs, writes,
                   tin, tout, sensors, seen, mutex, received>>

\* line 172: while process_data(0) {}, an event was waiting
Sweep ==
    /\ pcMain = "sweep"
    /\ Receive
    /\ UNCHANGED <<config, handled, lock, cb, pcMain, delivered, runs, writes,
                   tin, tout, sensors, seen, mutex, received>>

\* lines 172-179: the queue is empty, the watcher is stopped and the block
\* ends, which drops the guard of the session lock
EndBlock ==
    /\ pcMain = "sweep"
    /\ queue = <<>>
    /\ pcMain' = "closed"
    /\ lock' = [lock EXCEPT !.owner = "free"]
    /\ UNCHANGED <<config, handled, cb, queue, printed, delivered, runs, writes,
                   tin, tout, sensors, seen, mutex, received>>

\* line 180: sync returns, which drops rx
ReturnSync ==
    /\ pcMain = "closed"
    /\ pcMain' = "returned"
    /\ UNCHANGED <<config, handled, lock, cb, queue, printed, delivered, runs,
                   writes, tin, tout, sensors, seen, mutex, received>>

\* main.rs:71: main returns and the process ends with all its threads
Exit ==
    /\ pcMain = "returned"
    /\ pcMain' = "exited"
    /\ UNCHANGED <<config, handled, lock, cb, queue, printed, delivered, runs,
                   writes, tin, tout, sensors, seen, mutex, received>>

Next ==
    \/ \E t \in Threads :
           \/ Dispatch(t)
           \/ AcquireLock(t)
           \/ Decide(t)
           \/ Connect(t)
           \/ QueryService(t)
           \/ QueryCharacteristic(t)
           \/ ComputeTime(t)
           \/ WriteValue(t)
           \/ Finish(t)
           \/ Return(t)
    \/ Drain
    \/ RemoveReceived
    \/ TeardownLock
    \/ Sweep
    \/ EndBlock
    \/ ReturnSync
    \/ Exit

Spec == Init /\ [][Next]_vars

(***************************************************************************)
(* SpecTime: lines 218-235 of sync_xiaomi_clock on arbitrary arguments     *)
(* (timezone_diff_hour: Option<i8>, offset_seconds: Option<i32>) and       *)
(* readings of the clock.                                                  *)
(***************************************************************************)
TimeEpochs == (0..MaxEpoch) \cup {1000, 1700000000}

TimeOffsets ==
    ((-(MaxEpoch + 2))..(MaxEpoch + 2))
        \cup {120, -120, -90, 3725, -2000, 400000000, -2000000000}

TimeInputs ==
    [timezone_diff_hour : {None} \cup {Some(h) : h \in I8},
     offset_seconds : {None} \cup {Some(d) : d \in TimeOffsets},
     epoch_time : TimeEpochs]

InitTime ==
    /\ config \in Registries
    /\ handled = {}
    /\ lock = [owner |-> "free", poisoned |-> FALSE]
    /\ cb = [t \in Threads |-> Idle]
    /\ queue = <<>>
    /\ printed = None
    /\ pcMain = "window"
    /\ delivered = 0
    /\ runs = [a \in Addresses |-> 0]
    /\ writes = [a \in Addresses |-> <<>>]
    /\ tin \in TimeInputs
    /\ tout = None
    /\ sensors = NoSensors
    /\ seen = <<>>
    /\ mutex = NoOwner
    /\ received = None

\* epoch_time and timezone as they stand at line 236, and the offset as the
\* event of line 233 shows it, if the event is sent
TimeStep ==
    /\ tout = None
    /\ tout' = Some([timezone |-> ChooseTimezone(tin.timezone_diff_hour),
                     epoch_time |->
                         AdjustEpoch(tin.epoch_time, tin.offset_seconds).epoch_time,
                     committed |->
                         AdjustEpoch(tin.epoch_time, tin.offset_seconds).committed,
                     log |->
                         IF AdjustEpoch(tin.epoch_time, tin.offset_seconds).committed
                         THEN Some(FormatAdjust(Unwrap(tin.offset_seconds)))
                         ELSE None])
    /\ UNCHANGED <<config, handled, lock, cb, queue, printed, pcMain, delivered,
                   runs, writes, tin, sensors, seen, mutex, received>>

NextTime == TimeStep

SpecTime == InitTime /\ [][NextTime]_vars

(***************************************************************************)
(* u64 values wider than the integers of the checker: four 16-bit limbs,   *)
(* least significant first.                                                *)
(***************************************************************************)
Limb == 256 * 256

\* `as u32`: the low 32 bits, two limbs
AsU32(x) == <<x[1], x[2]>>

\* `as u8` of an i8: the two's-complement byte
I8AsU8(x) == (x + 256) % 256

LimbSamples == {0, 1, 255, 256, 1000, 25939, 61696, 65535}

\* epochs up to 2^33, among them 1000 and 1700000000 = 25939 * 2^16 + 61696
EpochSamples == {<<a, b, c, 0>> : a \in LimbSamples, b \in LimbSamples, c \in {0, 1}}

(***************************************************************************)
(* SpecBuffer: lines 237-246 of sync_xiaomi_clock, the buffer written to   *)
(* the clock characteristic, for the epoch (u64) and timezone (i8) of      *)
(* line 236.                                                               *)
(***************************************************************************)
\* mutant of WriteUInt32: the byte order is big endian
WriteUInt32BigEndian(buffer, v) ==
    buffer \o <<v[2] \div 256, v[2] % 256, v[1] \div 256, v[1] % 256>>

\* DataWriter::WriteUInt32 with ByteOrder::LittleEndian (lines 242-243)
WriteUInt32(buffer, v) ==
    buffer \o <<v[1] % 256, v[1] \div 256, v[2] % 256, v[2] \div 256>>

\* DataWriter::WriteByte (line 244)
WriteByte(buffer, b) == buffer \o <<b>>

\* lines 241-245
ClockBuffer(epoch_time, timezone) ==
    WriteByte(WriteUInt32(<<>>, AsU32(epoch_time)), I8AsU8(timezone))

BufferInputs == [epoch_time : EpochSamples, timezone : (-24)..24]

\* the variables of a session, at rest while a function is checked on its own
AtRest ==
    /\ config = [a \in Addresses |-> None]
    /\ handled = {}
    /\ lock = [owner |-> "free", poisoned |-> FALSE]
    /\ cb = [t \in Threads |-> Idle]
    /\ queue = <<>>
    /\ printed = None
    /\ pcMain = "window"
    /\ delivered = 0
    /\ runs = [a \in Addresses |-> 0]
    /\ writes = [a \in Addresses |-> <<>>]
    /\ sensors = NoSensors
    /\ seen = <<>>
    /\ mutex = NoOwner
    /\ received = None

InitBuffer ==
    /\ AtRest
    /\ tin \in BufferInputs
    /\ tout = None

BufferStep ==
    /\ tout = None
    /\ tout' = Some(ClockBuffer(tin.epoch_time, tin.timezone))
    /\ UNCHANGED <<config, handled, lock, cb, queue, printed, pcMain, delivered,
                   runs, writes, tin, sensors, seen, mutex, received>>

NextBuffer == BufferStep

SpecBuffer == InitBuffer /\ [][NextBuffer]_vars

(***************************************************************************)
(* SpecDecode: decode_advertisement (ble.rs:44-97) on advertisements with  *)
(* any service uuids and up to MaxSections data sections.                  *)
(***************************************************************************)
MaxSections == 2

\* payloads of a service-data section: complete ones of the sub-types 4, 6,
\* 10 and 99, and ones that end before an offset the decoder reads
DecodePayloads ==
    {Payload(sub, lo, hi) : sub \in {4, 6, 10, 99}, lo \in {250, 255}, hi \in {0, 128, 255}}
    \cup {Zeros(0), Zeros(14), Zeros(14) \o <<4>>, Zeros(14) \o <<6, 0, 0, 250>>,
          Zeros(14) \o <<10, 0, 0>>, Zeros(14) \o <<99>>}

DecodeSections ==
    {Section(1, <<6>>)} \cup {Section(ServiceDataType, p) : p \in DecodePayloads}

\* no advertisement, and the advertisements with k sections
DecodeInputs(k) ==
    {None} \cup
    {Some(Advert(a, services, sections)) :
        a \in Addresses,
        services \in SUBSET {ENVIRONMENTAL_SENSING_SERVICE_UUID, OTHER_SERVICE_UUID},
        sections \in [1..k -> DecodeSections]}

InitDecode ==
    /\ AtRest
    /\ \E k \in 0..MaxSections : tin \in DecodeInputs(k)
    /\ tout = None

DecodeStep ==
    /\ tout = None
    /\ tout' = Some(decode_advertisement(tin))
    /\ UNCHANGED <<config, handled, lock, cb, queue, printed, pcMain, delivered,
                   runs, writes, tin, sensors, seen, mutex, received>>

NextDecode == DecodeStep

SpecDecode == InitDecode /\ [][NextDecode]_vars

(***************************************************************************)
(* SpecScan: scan of main.rs (lines 183-316): the callback sends the       *)
(* readings to the channel, process_data aggregates them per address.      *)
(***************************************************************************)
\* advertisements the BLE stack delivers in one scan
MaxReadings == 3

\* SensorData::new (main.rs:325-327)
NewSensorData == [temperature |-> None, humidity |-> None, battery |-> None]

\* mutant of set_temperature: the first value is kept
set_temperature_once(data, value) ==
    IF IsSome(data.temperature) THEN data ELSE [data EXCEPT !.temperature = Some(value)]

\* main.rs:329-331
set_temperature(data, value) == [data EXCEPT !.temperature = Some(value)]

\* main.rs:333-335
set_humidity(data, value) == [data EXCEPT !.humidity = Some(value)]

\* main.rs:337-339
set_battery(data, value) == [data EXCEPT !.battery = Some(value)]

\* readings of two addresses, two of them for the same field of the same
\* address, and advertisements that carry no reading
ScanAdverts ==
    {None,
     Some(Sensor(1, 4, 250, 0)),
     Some(Sensor(1, 4, 4, 1)),
     Some(Sensor(1, 6, 144, 1)),
     Some(Sensor(1, 10, 80, 0)),
     Some(Sensor(2, 4, 250, 0)),
     Some(Sensor(2, 6, 144, 1)),
     Some(Sensor(2, 10, 80, 0)),
     Some(Sensor(2, 99, 1, 2))}

InitScan ==
    /\ AtRest
    /\ tin = None
    /\ tout = None

\* on_received of scan (main.rs:194-205): Temperature, Humidity and Battery
\* are sent to the channel
ScanReceived ==
    /\ pcMain = "window"
    /\ delivered < MaxReadings
    /\ delivered' = delivered + 1
    /\ \E args \in ScanAdverts :
           LET value == decode_advertisement(args)
           IN  queue' = IF value.kind \in {"Temperature", "Humidity", "Battery"}
                        THEN Append(queue, value)
                        ELSE queue
    /\ UNCHANGED <<config, handled, lock, cb, printed, pcMain, runs, writes,
                   tin, tout, sensors, seen, mutex, received>>

\* process_data of scan (main.rs:232-274) when recv_timeout returns a reading
ScanProcess ==
    /\ pcMain \in {"window", "sweep"}
    /\ queue # <<>>
    /\ LET data == Head(queue)
           entry == IF IsSome(sensors[data.address])
                    THEN Unwrap(sensors[data.address])
                    ELSE NewSensorData
           updated == IF data.kind = "Temperature"
                      THEN set_temperature(entry, data.value)
                      ELSE IF data.kind = "Humidity"
                      THEN set_humidity(entry, data.value)
                      ELSE IF data.kind = "Battery"
                      THEN set_battery(entry, data.value)
                      ELSE entry
       IN  /\ sensors' = [sensors EXCEPT ![data.address] = Some(updated)]
           /\ printed' = Some(data)
           /\ seen' = Append(seen, data)
    /\ queue' = Tail(queue)
    /\ UNCHANGED <<config, handled, lock, cb, pcMain, delivered, runs, writes,
                   tin, tout, mutex, received>>

\* main.rs:282-283: RemoveReceived and Stop
ScanStop ==
    /\ pcMain = "window"
    /\ pcMain' = "sweep"
    /\ UNCHANGED <<config, handled, lock, cb, queue, printed, delivered, runs,
                   writes, tin, tout, sensors, seen, mutex, received>>

\* main.rs:284-315: the final sweep found the channel empty; the summary is
\* printed from the snapshots
ScanSummary ==
    /\ pcMain = "sweep"
    /\ queue = <<>>
    /\ pcMain' = "exited"
    /\ UNCHANGED <<config, handled, lock, cb, queue, printed, delivered, runs,
                   writes, tin, tout, sensors, seen, mutex, received>>

NextScan ==
    \/ ScanReceived
    \/ ScanProcess
    \/ ScanStop
    \/ ScanSummary

SpecScan == InitScan /\ [][NextScan]_vars

(***************************************************************************)
(* lib.rs: Bluetooth addresses as text.  A string is the sequence of its   *)
(* characters; a u64 is four 16-bit limbs, least significant first.        *)
(***************************************************************************)
UpperHex ==
    <<"0", "1", "2", "3", "4", "5", "6", "7", "8", "9", "A", "B", "C", "D", "E", "F">>

LowerHex ==
    <<"0", "1", "2", "3", "4", "5", "6", "7", "8", "9", "a", "b", "c", "d", "e", "f">>

\* char::to_digit(16): the value of a hex digit of either case, -1 for any
\* other character
to_digit(c) ==
    IF \E i \in 1..16 : UpperHex[i] = c
    THEN (CHOOSE i \in 1..16 : UpperHex[i] = c) - 1
    ELSE IF \E i \in 1..16 : LowerHex[i] = c
    THEN (CHOOSE i \in 1..16 : LowerHex[i] = c) - 1
    ELSE -1

Zero64 == <<0, 0, 0, 0>>

\* Ok(value) of a Result
OkValue(v) == <<"Ok", v>>

IsOk(result) == result[1] = "Ok"

\* `(value >> n) as u8` for n a multiple of 8
ShrAsU8(value, n) ==
    (value[(n \div 16) + 1] \div (IF n % 16 = 0 THEN 1 ELSE 256)) % 256

\* value * 16 + d with the overflow check of from_str_radix
MulAdd16(value, d) ==
    LET t1 == value[1] * 16 + d
        t2 == value[2] * 16 + (t1 \div Limb)
        t3 == value[3] * 16 + (t2 \div Limb)
        t4 == value[4] * 16 + (t3 \div Limb)
    IN  [value |-> <<t1 % Limb, t2 % Limb, t3 % Limb, t4 % Limb>>,
         overflow |-> t4 \div Limb > 0]

\* `(converted << 8) | (v as u64)`: the bits shifted out are dropped
ShlOr8(converted, v) ==
    <<((converted[1] * 256) % Limb) + v,
      ((converted[2] * 256) % Limb) + (converted[1] \div 256),
      ((converted[3] * 256) % Limb) + (converted[2] \div 256),
      ((converted[4] * 256) % Limb) + (converted[3] \div 256)>>

\* format!("{:02X}", byte)
FormatByte(byte) == <<UpperHex[(byte \div 16) + 1], UpperHex[(byte % 16) + 1]>>

\* lines 4-24
format_bluetooth_address(value) ==
    LET bytes == <<ShrAsU8(value, 40), ShrAsU8(value, 32), ShrAsU8(value, 24),
                   ShrAsU8(value, 16), ShrAsU8(value, 8), ShrAsU8(value, 0)>>
    IN  FormatByte(bytes[1]) \o <<":">> \o FormatByte(bytes[2]) \o <<":">>
        \o FormatByte(bytes[3]) \o <<":">> \o FormatByte(bytes[4]) \o <<":">>
        \o FormatByte(bytes[5]) \o <<":">> \o FormatByte(bytes[6])

\* the digits of from_str_radix: a leading "+" is accepted, a "-" is not a
\* digit of an unsigned type, the empty string and a lone sign are errors
SkipSign(src) ==
    IF src # <<>> /\ Head(src) = "+" /\ Len(src) > 1 THEN Tail(src) ELSE src

RECURSIVE DigitsU64(_, _)
DigitsU64(digits, acc) ==
    IF digits = <<>> THEN OkValue(acc)
    ELSE IF to_digit(Head(digits)) < 0 THEN Err("InvalidDigit")
    ELSE LET m == MulAdd16(acc, to_digit(Head(digits)))
         IN  IF m.overflow THEN Err("PosOverflow")
             ELSE DigitsU64(Tail(digits), m.value)

\* u64::from_str_radix(src, 16)
u64_from_str_radix(src) ==
    IF src = <<>> THEN Err("Empty") ELSE DigitsU64(SkipSign(src), Zero64)

RECURSIVE DigitsU8(_, _)
DigitsU8(digits, acc) ==
    IF digits = <<>> THEN OkValue(acc)
    ELSE IF to_digit(Head(digits)) < 0 THEN Err("InvalidDigit")
    ELSE IF acc * 16 + to_digit(Head(digits)) > 255 THEN Err("PosOverflow")
    ELSE DigitsU8(Tail(digits), acc * 16 + to_digit(Head(digits)))

\* u8::from_str_radix(src, 16)
u8_from_str_radix(src) ==
    IF src = <<>> THEN Err("Empty") ELSE DigitsU8(SkipSign(src), 0)

\* value.split(':').collect()
RECURSIVE Split(_)
Split(value) ==
    LET at == {i \in 1..Len(value) : value[i] = ":"}
    IN  IF at = {} THEN <<value>>
        ELSE LET k == CHOOSE i \in at : \A j \in at : i <= j
             IN  <<SubSeq(value, 1, k - 1)>> \o Split(SubSeq(value, k + 1, Len(value)))

\* lines 43-52: the loop over the pieces
RECURSIVE ConvertPieces(_, _)
ConvertPieces(bytes, converted) ==
    IF bytes = <<>> THEN OkValue(converted)
    ELSE LET v == u8_from_str_radix(Head(bytes))
         IN  IF IsOk(v)
             THEN ConvertPieces(Tail(bytes), ShlOr8(converted, v[2]))
             ELSE Err("parsing error.")

\* mutant of decode_bluetooth_adddress: the bytes are taken in reverse order
decode_bluetooth_adddress_reversed(value) ==
    IF IsOk(u64_from_str_radix(value)) THEN u64_from_str_radix(value)
    ELSE LET bytes == Split(value)
         IN  IF Len(bytes) # 6 THEN Err("given address is not 6 byte form")
             ELSE ConvertPieces([i \in 1..6 |-> bytes[7 - i]], Zero64)

\* lines 29-55
decode_bluetooth_adddress(value) ==
    IF IsOk(u64_from_str_radix(value)) THEN u64_from_str_radix(value)
    ELSE LET bytes == Split(value)
         IN  IF Len(bytes) # 6 THEN Err("given address is not 6 byte form")
             ELSE ConvertPieces(bytes, Zero64)

(***************************************************************************)
(* SpecAddress: format_bluetooth_address and decode_bluetooth_adddress on  *)
(* 48-bit addresses, and decode_bluetooth_adddress on the other written    *)
(* forms of the same six bytes.                                            *)
(***************************************************************************)
\* 0x0000, 0x000A, 0x0A0B, 0x0F00, 0x1122, 0xFFFF
AddressLimbs == {0, 10, 2571, 3840, 4386, 65535}

AddressSamples == {<<a, b, c, 0>> : a \in AddressLimbs, b \in AddressLimbs, c \in AddressLimbs}

\* the written forms: with or without ":", upper or lower case, every byte
\* as two digits or without a leading zero; the form without ":" has twelve
\* digits
AddressForms ==
    {f \in [delimited : BOOLEAN, upper : BOOLEAN, padded : BOOLEAN] :
        ~f.delimited => f.padded}

\* a byte in the form f
WriteByteAs(byte, f) ==
    LET hex == IF f.upper THEN UpperHex ELSE LowerHex
    IN  IF f.padded \/ byte >= 16
        THEN <<hex[(byte \div 16) + 1], hex[(byte % 16) + 1]>>
        ELSE <<hex[byte + 1]>>

\* the six bytes of value, most significant first, in the form f
WriteAs(value, f) ==
    LET sep == IF f.delimited THEN <<":">> ELSE <<>>
        b(n) == WriteByteAs(ShrAsU8(value, n), f)
    IN  b(40) \o sep \o b(32) \o sep \o b(24) \o sep \o b(16) \o sep \o b(8)
        \o sep \o b(0)

AddressInputs == [value : AddressSamples, form : AddressForms]

InitAddress ==
    /\ AtRest
    /\ tin \in AddressInputs
    /\ tout = None

AddressStep ==
    /\ tout = None
    /\ tout' = Some([formatted |-> format_bluetooth_address(tin.value),
                     decoded |->
                         decode_bluetooth_adddress(format_bluetooth_address(tin.value)),
                     written |-> WriteAs(tin.value, tin.form),
                     parsed |-> decode_bluetooth_adddress(WriteAs(tin.value, tin.form))])
    /\ UNCHANGED <<config, handled, lock, cb, queue, printed, pcMain, delivered,
                   runs, writes, tin, sensors, seen, mutex, received>>

NextAddress == AddressStep

SpecAddress == InitAddress /\ [][NextAddress]_vars

(***************************************************************************)
(* SpecParse: decode_bluetooth_adddress on texts of up to MaxPieces        *)
(* pieces joined by ":".                                                   *)
(***************************************************************************)
MaxPieces == 7

\* pieces: "1F", the empty piece, "100", "+1", "g"
PieceSamples == {<<"1", "F">>, <<>>, <<"1", "0", "0">>, <<"+", "1">>, <<"g">>}

RECURSIVE JoinPieces(_)
JoinPieces(pieces) ==
    IF Len(pieces) = 1 THEN pieces[1]
    ELSE pieces[1] \o <<":">> \o JoinPieces(Tail(pieces))

\* the texts of k pieces
ParseInputs(k) == {JoinPieces(pieces) : pieces \in [1..k -> PieceSamples]}

InitParse ==
    /\ AtRest
    /\ \E k \in 1..MaxPieces : tin \in ParseInputs(k)
    /\ tout = None

ParseStep ==
    /\ tout = None
    /\ tout' = Some(decode_bluetooth_adddress(tin))
    /\ UNCHANGED <<config, handled, lock, cb, queue, printed, pcMain, delivered,
                   runs, writes, tin, sensors, seen, mutex, received>>

NextParse == ParseStep

SpecParse == InitParse /\ [][NextParse]_vars

(***************************************************************************)
(* SpecLocks: the session with every Mutex acquisition as a step of its    *)
(* own.  A callback holds the session lock (main.rs:93) and takes, one at  *)
(* a time, the Mutex of devices and the Mutex of config (ble.rs:119, 125,  *)
(* 141, 150, 157); the main thread takes the Mutex of config in            *)
(* process_data (main.rs:108, 118) and the session lock at the teardown    *)
(* (main.rs:171).  The steps of sync_xiaomi_clock take no Mutex and are    *)
(* the ones of Spec.                                                       *)
(***************************************************************************)
\* an advertisement whose service data ends before the sub-type
ShortAdvert ==
    Advert(1, {ENVIRONMENTAL_SENSING_SERVICE_UUID},
           <<Section(ServiceDataType, <<4>>)>>)

\* the advertisements of a session of SpecLocks
LockAdverts ==
    {None, Some(Sensor(1, 4, 250, 0)), Some(Sensor(2, 6, 38, 2)), Some(ShortAdvert)}

\* a session of SpecLocks starts with the registry in which address 1 has no
\* entry and address 2 is configured omit = true
InitLocks == Init /\ config[1] = None

\* the answers of the GATT queries in a session of SpecLocks: a transport
\* error, or success with one match
LockResponses ==
    {[transport |-> "Err", status |-> "Success", size |-> 0],
     [transport |-> "Ok", status |-> "Success", size |-> 1]}

\* the main thread is in the loop of the observation window
InWindow == {"window", "window_data", "window_held"}

\* the position at which the guard asked for at position pc is held
Held(pc) == pc \o "_held"

\* the handler is invoked while the main thread is in the window
DispatchLocks(t) ==
    /\ pcMain \in InWindow
    /\ cb[t].pc = "idle"
    /\ t = FirstIdle
    /\ delivered < MaxAdverts
    /\ \E args \in LockAdverts :
           cb' = [cb EXCEPT ![t] = [Idle EXCEPT !.pc = "dispatched", !.args = args]]
    /\ delivered' = delivered + 1
    /\ UNCHANGED <<config, handled, lock, queue, printed, pcMain, runs,
                   writes, tin, tout, sensors, seen, mutex, received>>

\* ble.rs:107-115, 135: get_address(&args)
GetAddress(t) ==
    /\ Alive
    /\ cb[t].pc = "locked"
    /\ IF decode_advertisement(cb[t].args).kind = "Panic"
       THEN PanicIn(t)
       ELSE /\ cb' = IF IsSome(get_address(cb[t].args))
                     THEN [cb EXCEPT ![t].pc = "is_handled",
                                     ![t].address = Unwrap(get_address(cb[t].args))]
                     ELSE [cb EXCEPT ![t].pc = "return"]
            /\ UNCHANGED lock
    /\ UNCHANGED <<config, handled, queue, printed, pcMain, delivered, runs,
                   writes, tin, tout, sensors, seen, mutex, received>>

\* handled_devices.lock().unwrap() of ble.rs:119, 141 and 157
LockDevices(t) ==
    /\ Alive
    /\ cb[t].pc \in {"is_handled", "omit_insert", "ok_insert"}
    /\ mutex.devices = "free"
    /\ mutex' = [mutex EXCEPT !.devices = t]
    /\ cb' = [cb EXCEPT ![t].pc = Held(cb[t].pc)]
    /\ UNCHANGED <<config, handled, lock, queue, printed, pcMain, delivered,
                   runs, writes, tin, tout, sensors, seen, received>>

\* config.lock().unwrap() of ble.rs:125 and 150
LockConfig(t) ==
    /\ Alive
    /\ cb[t].pc \in {"is_omit", "read_config"}
    /\ mutex.config = "free"
    /\ mutex' = [mutex EXCEPT !.config = t]
    /\ cb' = [cb EXCEPT ![t].pc = Held(cb[t].pc)]
    /\ UNCHANGED <<config, handled, lock, queue, printed, pcMain, delivered,
                   runs, writes, tin, tout, sensors, seen, received>>

\* ble.rs:118-121, 136: contains, and the guard is dropped
IsHandled(t) ==
    /\ Alive
    /\ cb[t].pc = "is_handled_held"
    /\ mutex' = [mutex EXCEPT !.devices = "free"]
    /\ cb' = [cb EXCEPT ![t].pc = IF is_handled(cb[t].address)
                                  THEN "return" ELSE "is_omit"]
    /\ UNCHANGED <<config, handled, lock, queue, printed, pcMain, delivered,
                   runs, writes, tin, tout, sensors, seen, received>>

\* ble.rs:124-131, 139: the omit flag, and the guard is dropped
IsOmit(t) ==
    /\ Alive
    /\ cb[t].pc = "is_omit_held"
    /\ mutex' = [mutex EXCEPT !.config = "free"]
    /\ cb' = [cb EXCEPT ![t].pc = IF is_omit(cb[t].address)
                                  THEN "omit_insert" ELSE "read_config"]
    /\ UNCHANGED <<config, handled, lock, queue, printed, pcMain, delivered,
                   runs, writes, tin, tout, sensors, seen, received>>

\* ble.rs:142-145: insert and send with the guard of devices held; the guard
\* is dropped at the end of the branch, or by the panic of the send
OmitInsert(t) ==
    /\ Alive
    /\ cb[t].pc = "omit_insert_held"
    /\ handled' = Insert(handled, cb[t].address)
    /\ mutex' = [mutex EXCEPT !.devices = "free"]
    /\ IF RxAlive
       THEN LET ev == Progress(cb[t].address, "Configured as Omit", <<>>)
            IN  /\ queue' = Send(t, ev)
                /\ cb' = [cb EXCEPT ![t].pc = "return", ![t].trace = <<ev>>]
                /\ UNCHANGED lock
       ELSE /\ PanicIn(t)
            /\ UNCHANGED queue
    /\ UNCHANGED <<config, printed, pcMain, delivered, runs, writes, tin,
                   tout, sensors, seen, received>>

\* ble.rs:147-155: the timezone and the offset are read, the guard of config
\* is dropped and sync_xiaomi_clock is called
ReadConfig(t) ==
    /\ Alive
    /\ cb[t].pc = "read_config_held"
    /\ mutex' = [mutex EXCEPT !.config = "free"]
    /\ cb' = [cb EXCEPT
           ![t].pc = "Connecting",
           ![t].timezone_hour =
               IF IsSome(config[cb[t].address])
               THEN get_timezone_diff_hour(Unwrap(config[cb[t].address]))
               ELSE None,
           ![t].offset_seconds =
               IF IsSome(config[cb[t].address])
               THEN Unwrap(config[cb[t].address]).offset_seconds
               ELSE None]
    /\ runs' = [runs EXCEPT ![cb[t].address] = @ + 1]
    /\ UNCHANGED <<config, handled, lock, queue, printed, pcMain, delivered,
                   writes, tin, tout, sensors, seen, received>>

\* ble.rs:182-198
QueryServiceLocks(t) ==
    LookupOn(LockResponses, t, "ServiceLookup",
             "Querying service, UUID=" \o LYWSD02_SERVICE_UUID,
             "Failed to query service", "No services returned",
             "CharacteristicLookup")

\* ble.rs:200-216
QueryCharacteristicLocks(t) ==
    LookupOn(LockResponses, t, "CharacteristicLookup",
             "Querying characteristic, UUID=" \o LYWSD02_CHARACTERISTIC_TIME_UUID,
             "Failed to query characteristic", "No characteristic returned",
             "ComputeTime")

\* ble.rs:155-162: the match on the result; the Err arm sends the Error event
MatchResult(t) ==
    /\ Alive
    /\ cb[t].pc = "finish"
    /\ IF cb[t].result = Ok
       THEN /\ cb' = [cb EXCEPT ![t].pc = "ok_insert"]
            /\ UNCHANGED <<queue, lock>>
       ELSE IF RxAlive
            THEN LET ev == Error(cb[t].address, cb[t].result[2])
                 IN  /\ queue' = Send(t, ev)
                     /\ cb' = [cb EXCEPT ![t] = Goto(t, "return", <<ev>>)]
                     /\ UNCHANGED lock
            ELSE /\ PanicIn(t)
                 /\ UNCHANGED queue
    /\ UNCHANGED <<config, handled, printed, pcMain, delivered, runs, writes,
                   tin, tout, sensors, seen, mutex, received>>

\* ble.rs:157-159: insert, and the guard is dropped
OkInsert(t) ==
    /\ Alive
    /\ cb[t].pc = "ok_insert_held"
    /\ handled' = Insert(handled, cb[t].address)
    /\ mutex' = [mutex EXCEPT !.devices = "free"]
    /\ cb' = [cb EXCEPT ![t].pc = "return"]
    /\ UNCHANGED <<config, lock, queue, printed, pcMain, delivered, runs,
                   writes, tin, tout, sensors, seen, received>>

\* main.rs:99, 104: recv_timeout returns an event
RecvData ==
    /\ pcMain \in {"window", "sweep"}
    /\ queue # <<>>
    /\ received' = Some(Head(queue))
    /\ queue' = Tail(queue)
    /\ pcMain' = pcMain \o "_data"
    /\ UNCHANGED <<config, handled, lock, cb, printed, delivered, runs,
                   writes, tin, tout, sensors, seen, mutex>>

\* main.rs:108, 118: config.lock().unwrap()
LockConfigMain ==
    /\ pcMain \in {"window_data", "sweep_data"}
    /\ mutex.config = "free"
    /\ mutex' = [mutex EXCEPT !.config = "main"]
    /\ pcMain' = IF pcMain = "window_data" THEN "window_held" ELSE "sweep_held"
    /\ UNCHANGED <<config, handled, lock, cb, queue, printed, delivered,
                   runs, writes, tin, tout, sensors, seen, received>>

\* mutant of Println: the guard of config is bound to a variable of the
\* main thread and lives on
PrintlnHolding ==
    /\ pcMain \in {"window_held", "sweep_held"}
    /\ printed' = received
    /\ received' = None
    /\ pcMain' = IF pcMain = "window_held" THEN "window" ELSE "sweep"
    /\ UNCHANGED <<config, handled, lock, cb, queue, delivered, runs, writes,
                   tin, tout, sensors, seen, mutex>>

\* main.rs:108-114, 118-124: the name is looked up, the guard is dropped and
\* the line is printed
Println ==
    /\ pcMain \in {"window_held", "sweep_held"}
    /\ mutex' = [mutex EXCEPT !.config = "free"]
    /\ printed' = received
    /\ received' = None
    /\ pcMain' = IF pcMain = "window_held" THEN "window" ELSE "sweep"
    /\ UNCHANGED <<config, handled, lock, cb, queue, delivered, runs, writes,
                   tin, tout, sensors, seen>>

\* the steps of a callback after its dispatch
CallbackStep(t) ==
    \/ AcquireLock(t)
    \/ GetAddress(t)
    \/ LockDevices(t)
    \/ LockConfig(t)
    \/ IsHandled(t)
    \/ IsOmit(t)
    \/ OmitInsert(t)
    \/ ReadConfig(t)
    \/ Connect(t)
    \/ QueryServiceLocks(t)
    \/ QueryCharacteristicLocks(t)
    \/ ComputeTime(t)
    \/ WriteValue(t)
    \/ MatchResult(t)
    \/ OkInsert(t)
    \/ Return(t)

\* the steps of the main thread
MainStep ==
    \/ RecvData
    \/ LockConfigMain
    \/ Println
    \/ RemoveReceived
    \/ TeardownLock
    \/ EndBlock
    \/ ReturnSync
    \/ Exit

NextLocks ==
    \/ \E t \in Threads : DispatchLocks(t)
    \/ \E t \in Threads : CallbackStep(t)
    \/ MainStep

\* every external call of a protocol run returns, a thread that can go on
\* goes on, and the observation window ends
FairLocks ==
    /\ \A t \in Threads : WF_vars(CallbackStep(t))
    /\ WF_vars(MainStep)

SpecLocks == InitLocks /\ [][NextLocks]_vars /\ FairLocks

(***************************************************************************)
(* Vocabulary of the properties.                                           *)
(***************************************************************************)
Events(trace) == SelectSeq(trace, LAMBDA x : x.kind # "Step")

StepNames(trace) ==
    LET st == SelectSeq(trace, LAMBDA x : x.kind = "Step")
    IN  [i \in 1..Len(st) |-> st[i].msg]

ErrorsIn(trace) == SelectSeq(trace, LAMBDA x : x.kind = "Error")

IsPrefix(s, r) == Len(s) <= Len(r) /\ \A i \in 1..Len(s) : s[i] = r[i]

\* what the advertisements of the session decode to
Decoded == [args \in SessionAdverts |-> decode_advertisement(args)]

\* what the advertisement of thread t decodes to
Reading(t) == Decoded[cb[t].args]

IsTH(t) == Reading(t).kind \in {"Temperature", "Humidity"}

\* t holds the session lock and is in sync_device_args
InCoordinator(t) ==
    cb[t].pc \in {"locked", "Connecting", "ServiceLookup", "CharacteristicLookup",
                  "ComputeTime", "Writing", "finish", "return"}

\* t is in sync_xiaomi_clock or at the match on its result
InRun(t) ==
    cb[t].pc \in {"Connecting", "ServiceLookup", "CharacteristicLookup",
                  "ComputeTime", "Writing", "finish"}

\* sync_device_args of t has taken its decision
Decided(t) == cb[t].pc \notin {"idle", "dispatched", "locked", "poisoned"}

\* sync_device_args of t is over: it returned or it panicked
Over(t) == cb[t].pc \in {"return", "panicked"}

OmitTrue(a) == IsSome(config[a]) /\ Unwrap(config[a]).omit = Some(TRUE)

OmitEvent(a) == Progress(a, "Configured as Omit", <<>>)

(***************************************************************************)
(* C1                                                                      *)
(***************************************************************************)
\* C1 as stated: for advertisements carrying a Temperature/Humidity reading
\* of one address, the protocol is never run twice for the address, and after
\* a callback the HandledSet contains the address.
C1_NeverTwoRuns ==
    /\ \A a \in Addresses : runs[a] <= 1
    /\ \A t \in Threads :
           (cb[t].pc = "return" /\ IsTH(t)) => Reading(t).address \in handled

\* C1 amended: the coordinator invocations of two callbacks never overlap; a
\* protocol run is in progress only for an address that is not handled and
\* for which no earlier run wrote the clock, so at most one run per address
\* succeeds and a second run happens only after a failed one; when a callback
\* for a Temperature/Humidity reading returns, the HandledSet contains the
\* address exactly if it was handled before, is configured omit or the run
\* returned Ok.
C1_Serialized ==
    /\ \A t1, t2 \in Threads :
           t1 # t2 => ~(InCoordinator(t1) /\ InCoordinator(t2))
    /\ \A t \in Threads :
           InRun(t) =>
               /\ cb[t].address \notin handled
               /\ Len(writes[cb[t].address]) = (IF cb[t].result = Ok THEN 1 ELSE 0)
    /\ \A a \in Addresses : Len(writes[a]) <= 1
    /\ \A t \in Threads :
           (cb[t].pc = "return" /\ IsTH(t)) =>
               LET a == Reading(t).address
               IN  a \in handled <=>
                       (a \in cb[t].pre \/ OmitTrue(a) \/ cb[t].result = Ok)

\* a callback waits for the lock while the run of another callback for the
\* same address has succeeded and not yet returned
C1_Witness ==
    \E t1, t2 \in Threads :
        /\ t1 # t2
        /\ cb[t1].pc = "return" /\ cb[t1].result = Ok
        /\ cb[t2].pc = "dispatched" /\ IsTH(t2)
        /\ Reading(t2).address = cb[t1].address

(***************************************************************************)
(* C2                                                                      *)
(***************************************************************************)
\* C2: a Temperature/Humidity advertisement for an address that is in the
\* HandledSet is a no-op: no protocol step, no log event, HandledSet
\* unchanged; no protocol run is ever in progress for a handled address, so a
\* run that succeeded is the last run of its address.
C2_HandledIsNoOp ==
    /\ \A t \in Threads :
           (Decided(t) /\ IsTH(t) /\ Reading(t).address \in cb[t].pre) =>
               /\ cb[t].pc = "return"
               /\ cb[t].trace = <<>>
               /\ handled = cb[t].pre
    /\ \A t \in Threads :
           InRun(t) => (cb[t].address \notin cb[t].pre /\ cb[t].address \notin handled)
    /\ \A a \in Addresses :
           (a \in handled /\ ~OmitTrue(a)) => Len(writes[a]) = 1

\* the second advertisement of an address whose run succeeded has been
\* processed
C2_Witness ==
    \E t \in Threads :
        /\ cb[t].pc = "return" /\ IsTH(t)
        /\ Reading(t).address \in cb[t].pre
        /\ ~OmitTrue(Reading(t).address)
        /\ runs[Reading(t).address] = 1

(***************************************************************************)
(* C3                                                                      *)
(***************************************************************************)
\* C3: processing a Temperature/Humidity advertisement of an address
\* configured omit = true inserts the address, emits exactly one Progress
\* event "Configured as Omit" if the address was not handled and none if it
\* was, and never starts the protocol.
C3_OmitOnce ==
    \A t \in Threads :
        (Decided(t) /\ IsTH(t) /\ OmitTrue(Reading(t).address)) =>
            LET a == Reading(t).address
            IN  /\ a \in handled
                /\ runs[a] = 0
                /\ StepNames(cb[t].trace) = <<>>
                /\ Events(cb[t].trace) =
                       IF a \in cb[t].pre THEN <<>> ELSE <<OmitEvent(a)>>

\* the part of C3 that holds: the same for every callback that returns
C3_OmitOnceOnReturn ==
    \A t \in Threads :
        (cb[t].pc = "return" /\ IsTH(t) /\ OmitTrue(Reading(t).address)) =>
            LET a == Reading(t).address
            IN  /\ a \in handled
                /\ runs[a] = 0
                /\ StepNames(cb[t].trace) = <<>>
                /\ Events(cb[t].trace) =
                       IF a \in cb[t].pre THEN <<>> ELSE <<OmitEvent(a)>>

(***************************************************************************)
(* C4                                                                      *)
(***************************************************************************)
\* C4: when a protocol run has failed, the address is not in the HandledSet
\* and exactly one Error event for the address was emitted by the run; a
\* Temperature/Humidity advertisement of an address that is neither handled
\* nor omitted starts a protocol run.
C4_FailedRunReported ==
    /\ \A t \in Threads :
           (Over(t) /\ IsErr(cb[t].result)) =>
               /\ cb[t].address \notin handled
               /\ ErrorsIn(cb[t].trace) = <<Error(cb[t].address, cb[t].result[2])>>
    /\ \A t \in Threads :
           (Over(t) /\ IsTH(t) /\ Reading(t).address \notin cb[t].pre
                    /\ ~OmitTrue(Reading(t).address)) =>
               /\ runs[Reading(t).address] >= 1
               /\ cb[t].pc = "return" => StepNames(cb[t].trace) # <<>>

\* the part of C4 that holds: the same for every callback that returns
C4_FailedRunReportedOnReturn ==
    /\ \A t \in Threads :
           (cb[t].pc = "return" /\ IsErr(cb[t].result)) =>
               /\ cb[t].address \notin handled
               /\ ErrorsIn(cb[t].trace) = <<Error(cb[t].address, cb[t].result[2])>>
    /\ \A t \in Threads :
           (cb[t].pc = "return" /\ IsTH(t) /\ Reading(t).address \notin cb[t].pre
                    /\ ~OmitTrue(Reading(t).address)) =>
               /\ StepNames(cb[t].trace) # <<>>
               /\ runs[Reading(t).address] >= 1

(***************************************************************************)
(* C5                                                                      *)
(***************************************************************************)
\* C5: no step of the session removes an address from the HandledSet.
C5_HandledOnlyGrows == [][handled \subseteq handled']_vars

\* both addresses are handled when the process ends
C5_Witness == handled = Addresses /\ pcMain = "exited"

(***************************************************************************)
(* C6                                                                      *)
(***************************************************************************)
\* C6: an advertisement that does not decode to Temperature or Humidity
\* causes no coordinator action: no protocol step, no log event, and the
\* HandledSet is unchanged when the callback returns.
C6_OthersIgnored ==
    \A t \in Threads :
        ~IsTH(t) =>
            /\ cb[t].pc \in {"idle", "dispatched", "locked", "return", "poisoned"}
            /\ cb[t].trace = <<>>
            /\ cb[t].pc = "return" => handled = cb[t].pre

\* a Battery advertisement of an address configured omit = true has been
\* processed, and the address is not handled
C6_Witness ==
    \E t \in Threads :
        /\ cb[t].pc = "return"
        /\ Reading(t).kind = "Battery"
        /\ OmitTrue(Reading(t).address)
        /\ Reading(t).address \notin handled

(***************************************************************************)
(* C7                                                                      *)
(***************************************************************************)
\* C7: a protocol run attempts its steps in the order Connecting,
\* ServiceLookup, CharacteristicLookup, ComputeTime, Writing, Done, none
\* twice; once a step has failed no later step is attempted and nothing was
\* written to the device; a run that has failed has emitted exactly one Error
\* event, carrying its reason, as the last event of the run.
C7_StepsInOrder ==
    \A t \in Threads :
        /\ IsPrefix(StepNames(cb[t].trace), StepOrder)
        /\ IsErr(cb[t].result) =>
               /\ cb[t].pc \in {"finish", "return", "panicked"}
               /\ writes[cb[t].address] = <<>>
               /\ "Done" \notin {StepNames(cb[t].trace)[i] :
                                     i \in 1..Len(StepNames(cb[t].trace))}
        /\ (Over(t) /\ IsErr(cb[t].result)) =>
               /\ ErrorsIn(cb[t].trace) = <<Error(cb[t].address, cb[t].result[2])>>
               /\ cb[t].trace[Len(cb[t].trace)] = Error(cb[t].address, cb[t].result[2])

\* the part of C7 that holds: the same, the Error event for every callback
\* that returns
C7_StepsInOrderOnReturn ==
    \A t \in Threads :
        /\ IsPrefix(StepNames(cb[t].trace), StepOrder)
        /\ IsErr(cb[t].result) =>
               /\ cb[t].pc \in {"finish", "return", "panicked"}
               /\ writes[cb[t].address] = <<>>
               /\ "Done" \notin {StepNames(cb[t].trace)[i] :
                                     i \in 1..Len(StepNames(cb[t].trace))}
        /\ (cb[t].pc = "return" /\ IsErr(cb[t].result)) =>
               /\ ErrorsIn(cb[t].trace) = <<Error(cb[t].address, cb[t].result[2])>>
               /\ cb[t].trace[Len(cb[t].trace)] = Error(cb[t].address, cb[t].result[2])

(***************************************************************************)
(* C8                                                                      *)
(***************************************************************************)
\* the cause of a failed query, in the order transport error, non-success
\* status, empty result
CauseOf(resp) ==
    IF resp.transport = "Err" THEN "transport"
    ELSE IF resp.status # "Success" THEN "status"
    ELSE "empty"

ReasonOf(step, cause) ==
    IF step = "ServiceLookup"
    THEN CASE cause = "transport" -> "Failed to query service"
           [] cause = "status" -> "Communication error"
           [] cause = "empty" -> "No services returned"
    ELSE CASE cause = "transport" -> "Failed to query characteristic"
           [] cause = "status" -> "Communication error"
           [] cause = "empty" -> "No characteristic returned"

\* the three reasons of a step are distinct
ReasonsDistinct ==
    \A step \in {"ServiceLookup", "CharacteristicLookup"} :
        \A c1, c2 \in {"transport", "status", "empty"} :
            c1 # c2 => ReasonOf(step, c1) # ReasonOf(step, c2)

LastStep(t) ==
    LET names == StepNames(cb[t].trace)
    IN  names[Len(names)]

\* C8: a lookup that failed on the response resp ends the run with the
\* reason of its step and of the first cause in the order transport error,
\* non-success status, empty result; the three reasons of a step are
\* distinct; the Error event of a run that returned carries the reason.
C8_LookupReasons ==
    /\ \A t \in Threads :
           cb[t].resp # NoResponse =>
               LET step == LastStep(t)
               IN  /\ step \in {"ServiceLookup", "CharacteristicLookup"}
                   /\ cb[t].result = Err(ReasonOf(step, CauseOf(cb[t].resp)))
    /\ \A t \in Threads :
           (cb[t].pc = "return" /\ IsErr(cb[t].result)) =>
               cb[t].trace[Len(cb[t].trace)] = Error(cb[t].address, cb[t].result[2])
    /\ ReasonsDistinct

\* a characteristic query answered with a non-success status and no match
\* has been reported as "Communication error"
C8_Witness ==
    \E t \in Threads :
        /\ cb[t].pc = "return"
        /\ cb[t].resp # NoResponse
        /\ LastStep(t) = "CharacteristicLookup"
        /\ cb[t].resp.transport = "Ok"
        /\ cb[t].resp.status # "Success"
        /\ cb[t].resp.size = 0
        /\ cb[t].trace[Len(cb[t].trace)] = Error(cb[t].address, "Communication error")

(***************************************************************************)
(* C9 (SpecTime)                                                           *)
(***************************************************************************)
\* C9: the timezone hour the protocol goes on with is the supplied hour when
\* it is present and in [-24, 24], and 9 otherwise.
C9_TimezoneRange ==
    IsSome(tout) =>
        Unwrap(tout).timezone =
            IF /\ tin.timezone_diff_hour # None
               /\ tin.timezone_diff_hour[1] \in (-24)..24
            THEN tin.timezone_diff_hour[1]
            ELSE 9

\* the hour -24 has been accepted
C9_Witness ==
    /\ IsSome(tout)
    /\ tin.timezone_diff_hour = Some(-24)
    /\ Unwrap(tout).timezone = -24

(***************************************************************************)
(* C10 (SpecTime)                                                          *)
(***************************************************************************)
\* C10: with the epoch e and the offset d, the committed epoch is e + d when
\* d is supplied and e + d > 0, and e otherwise.
C10_CommittedEpoch ==
    IsSome(tout) =>
        Unwrap(tout).epoch_time =
            IF /\ tin.offset_seconds # None
               /\ tin.epoch_time + tin.offset_seconds[1] > 0
            THEN tin.epoch_time + tin.offset_seconds[1]
            ELSE tin.epoch_time

\* epoch 1000 with offset -2000 has kept 1000
C10_Witness ==
    /\ IsSome(tout)
    /\ tin.epoch_time = 1000
    /\ tin.offset_seconds = Some(-2000)
    /\ Unwrap(tout).epoch_time = 1000

(***************************************************************************)
(* C11 (SpecBuffer)                                                        *)
(***************************************************************************)
\* digit i (0-based) of x in base 256
ByteOf(x, i) ==
    (x[(i \div 2) + 1] \div (IF i % 2 = 0 THEN 1 ELSE 256)) % 256

\* C11: the buffer written to the clock characteristic has exactly 5 bytes:
\* bytes 0..3 are the four low base-256 digits of the epoch, least
\* significant first (the epoch mod 2^32, little endian), and byte 4 is the
\* two's-complement byte of the timezone hour.
C11_BufferLayout ==
    IsSome(tout) =>
        LET buffer == Unwrap(tout)
        IN  /\ Len(buffer) = 5
            /\ \A i \in 0..3 : buffer[i + 1] = ByteOf(tin.epoch_time, i)
            /\ buffer[5] \in 0..255
            /\ (buffer[5] - tin.timezone) % 256 = 0

\* the epoch 2^32 + 1700000000 with the hour -5 has been written as
\* 00 F1 53 65 FB
C11_Witness ==
    /\ tin.epoch_time = <<61696, 25939, 1, 0>>
    /\ tin.timezone = -5
    /\ tout = Some(<<0, 241, 83, 101, 251>>)

(***************************************************************************)
(* C12 .. C15 (SpecDecode)                                                 *)
(***************************************************************************)
\* the advertisement decoded carries the vendor service uuid
HasVendorService ==
    IsSome(tin) /\ ENVIRONMENTAL_SENSING_SERVICE_UUID \in Unwrap(tin).services

\* the payloads of its service-data sections, in the order of the sections
ServiceData ==
    LET sd == SelectSeq(Unwrap(tin).sections,
                        LAMBDA x : x.dataType = ServiceDataType)
    IN  [i \in 1..Len(sd) |-> sd[i].data]

\* the length a payload must have for the decoder's reads
NeededLen(data) ==
    IF Len(data) < 15 THEN 15
    ELSE IF data[15] \in {4, 6} THEN 19
    ELSE IF data[15] = 10 THEN 18
    ELSE 15

\* the vendor payload the decoder looks at is present and long enough
Complete ==
    /\ HasVendorService
    /\ ServiceData # <<>>
    /\ Len(ServiceData[1]) >= NeededLen(ServiceData[1])

\* a 16-bit value as a signed integer
Signed16(v) == IF v >= 32768 THEN v - 65536 ELSE v

\* C12: an absent advertisement and an advertisement whose service uuids do
\* not contain the vendor service uuid decode to Unknown (Unrecognized),
\* whatever sections they carry.
C12_NoVendorServiceIsUnknown ==
    (IsSome(tout) /\ ~HasVendorService) => Unwrap(tout) = Kind("Unknown", 0, 0)

\* an advertisement of another service with a well-formed temperature
\* section as its first section has been decoded to Unknown
C12_Witness ==
    /\ IsSome(tout)
    /\ IsSome(tin)
    /\ Unwrap(tin).services = {OTHER_SERVICE_UUID}
    /\ Len(Unwrap(tin).sections) >= 1
    /\ Unwrap(tin).sections[1] = Section(ServiceDataType, Payload(4, 250, 0))
    /\ Unwrap(tout).kind = "Unknown"

\* C13: for sub-type 4 or 6 the value in tenths is bytes 17-18 as a little
\* endian SIGNED 16-bit integer, Temperature for 4 and Humidity for 6; for
\* sub-type 10 it is byte 17, Battery; each with the address.
C13_SignedTenths ==
    (IsSome(tout) /\ Complete /\ ServiceData[1][15] \in {4, 6, 10}) =>
        LET data == ServiceData[1]
            sub == data[15]
        IN  Unwrap(tout) =
                IF sub = 10
                THEN Kind("Battery", Unwrap(tin).address, data[18])
                ELSE Kind(IF sub = 4 THEN "Temperature" ELSE "Humidity",
                          Unwrap(tin).address,
                          Signed16(data[18] + 256 * data[19]))

\* the part of C13 that holds: the same with the bytes 17-18 as an unsigned
\* 16-bit integer
C13_UnsignedTenths ==
    (IsSome(tout) /\ Complete /\ ServiceData[1][15] \in {4, 6, 10}) =>
        LET data == ServiceData[1]
            sub == data[15]
        IN  Unwrap(tout) =
                IF sub = 10
                THEN Kind("Battery", Unwrap(tin).address, data[18])
                ELSE Kind(IF sub = 4 THEN "Temperature" ELSE "Humidity",
                          Unwrap(tin).address, data[18] + 256 * data[19])

\* C14: with the vendor service uuid present, a sub-type other than 4, 6, 10
\* and the absence of a service-data section both decode to Omit
\* (NotDecodable), not to Unknown.
C14_OtherSubTypeIsOmit ==
    (/\ IsSome(tout)
     /\ HasVendorService
     /\ \/ ServiceData = <<>>
        \/ Complete /\ ServiceData[1][15] \notin {4, 6, 10}) =>
        Unwrap(tout) = Kind("Omit", 0, 0)

\* the part of C14 that holds: without a service-data section the result is
\* Omit
C14_NoServiceDataIsOmit ==
    (IsSome(tout) /\ HasVendorService /\ ServiceData = <<>>) =>
        Unwrap(tout) = Kind("Omit", 0, 0)

\* C15: a vendor payload shorter than the offsets the decoder reads does not
\* make it panic and decodes to Omit (NotDecodable).
C15_ShortPayloadIsOmit ==
    (/\ IsSome(tout)
     /\ HasVendorService
     /\ ServiceData # <<>>
     /\ Len(ServiceData[1]) < NeededLen(ServiceData[1])) =>
        Unwrap(tout) = Kind("Omit", 0, 0)

(***************************************************************************)
(* C16                                                                     *)
(***************************************************************************)
\* the teardown block of sync has ended (main.rs:179)
TornDown == pcMain \in {"closed", "returned", "exited"}

\* C16: the teardown removes the subscription, then takes the session lock,
\* then sweeps the queue; after the teardown no callback sends a log event:
\* the queue stays empty and no callback, also not one that was dispatched
\* before and waited for the lock, has sent an event or failed to send one.
C16_QuietAfterTeardown ==
    /\ pcMain = "sweep" =>
           (lock.owner = "main" /\ \A t \in Threads : ~InCoordinator(t))
    /\ TornDown =>
           /\ queue = <<>>
           /\ \A t \in Threads :
                  Events(cb[t].trace) = <<>> /\ cb[t].pc # "panicked"

\* the part of C16 that holds: the order of the teardown; the sweep runs
\* with the lock held by the main thread and no callback in the coordinator,
\* and the lock is not the main thread's before or after it
C16_TeardownOrder ==
    /\ pcMain = "sweep" =>
           (lock.owner = "main" /\ \A t \in Threads : ~InCoordinator(t))
    /\ pcMain # "sweep" => lock.owner # "main"

(***************************************************************************)
(* C17 (SpecScan)                                                          *)
(***************************************************************************)
\* the value of the most recent reading of the kind for the address among
\* the readings processed, or None
MostRecent(a, kind) ==
    LET at == {i \in 1..Len(seen) : seen[i].address = a /\ seen[i].kind = kind}
    IN  IF at = {} THEN None
        ELSE Some(seen[CHOOSE i \in at : \A j \in at : j <= i].value)

\* C17: after any sequence of readings processed by the aggregator, an
\* address without a reading has no snapshot, and the snapshot of an address
\* holds in each field the value of the most recent reading of that kind for
\* the address, or None; so a reading changes only its field of its address.
C17_LastValueWins ==
    \A a \in Addresses :
        IF \A i \in 1..Len(seen) : seen[i].address # a
        THEN sensors[a] = None
        ELSE sensors[a] = Some([temperature |-> MostRecent(a, "Temperature"),
                                humidity |-> MostRecent(a, "Humidity"),
                                battery |-> MostRecent(a, "Battery")])

\* address 1 has had Temperature 25.0, then 26.0, then Humidity 40.0 and its
\* snapshot is {26.0, 40.0, None}
C17_Witness ==
    /\ seen = <<Kind("Temperature", 1, 250), Kind("Temperature", 1, 260),
                Kind("Humidity", 1, 400)>>
    /\ sensors[1] = Some([temperature |-> Some(260), humidity |-> Some(400),
                          battery |-> None])
    /\ sensors[2] = None

(***************************************************************************)
(* C18 (SpecAddress)                                                       *)
(***************************************************************************)
\* C18: for every 48-bit address a, decoding the formatted address gives
\* Ok(a); the form with ":" and the form of twelve hex digits of the same
\* six bytes, in either case and with one-digit pieces, decode to Ok(a) too.
C18_RoundTrip ==
    IsSome(tout) =>
        /\ Len(Unwrap(tout).formatted) = 17
        /\ Unwrap(tout).decoded = OkValue(tin.value)
        /\ Unwrap(tout).parsed = OkValue(tin.value)

\* 0x000A11220A0B is formatted as "00:0A:11:22:0A:0B", and "0:a:11:22:a:b"
\* has been decoded to it
C18_Witness ==
    /\ IsSome(tout)
    /\ tin.value = <<2571, 4386, 10, 0>>
    /\ Unwrap(tout).formatted =
           <<"0", "0", ":", "0", "A", ":", "1", "1", ":", "2", "2", ":",
             "0", "A", ":", "0", "B">>
    /\ Unwrap(tout).written =
           <<"0", ":", "a", ":", "1", "1", ":", "2", "2", ":", "a", ":", "b">>
    /\ Unwrap(tout).parsed = OkValue(<<2571, 4386, 10, 0>>)

(***************************************************************************)
(* C19 (SpecParse)                                                         *)
(***************************************************************************)
IsHexDigit(c) == \E i \in 1..16 : UpperHex[i] = c \/ LowerHex[i] = c

\* a piece that is a hexadecimal value fitting one byte: hex digits only, at
\* least one, at most two after the leading zeros
HexByte(piece) ==
    /\ piece # <<>>
    /\ \A i \in 1..Len(piece) : IsHexDigit(piece[i])
    /\ \A i \in 1..(Len(piece) - 2) : piece[i] = "0"

\* the same, or such a value after a "+"
SignedHexByte(piece) ==
    \/ HexByte(piece)
    \/ Len(piece) > 1 /\ piece[1] = "+" /\ HexByte(Tail(piece))

\* the text decoded contains a ":"
ColonDelimited == \E i \in 1..Len(tin) : tin[i] = ":"

\* C19: a text with ":" whose number of pieces is not 6, or that has a piece
\* that is not a hexadecimal value fitting one byte, is never decoded to Ok.
C19_RejectsMalformed ==
    (/\ IsSome(tout)
     /\ ColonDelimited
     /\ \/ Len(Split(tin)) # 6
        \/ \E i \in 1..Len(Split(tin)) : ~HexByte(Split(tin)[i])) =>
        ~IsOk(Unwrap(tout))

\* the part of C19 that holds: the same where a piece may carry a "+"
C19_RejectsMalformedUnsigned ==
    (/\ IsSome(tout)
     /\ ColonDelimited
     /\ \/ Len(Split(tin)) # 6
        \/ \E i \in 1..Len(Split(tin)) : ~SignedHexByte(Split(tin)[i])) =>
        ~IsOk(Unwrap(tout))

(***************************************************************************)
(* C20                                                                     *)
(***************************************************************************)
\* C20: a callback is in the coordinator (the handled check, the omit check,
\* the protocol run, the insert) only while it owns the session lock, so at
\* most one callback is in it at a time; from the check of a callback to its
\* insert no other callback changes the HandledSet: during its run the set
\* is the one it checked, and at its return the set is that one with at most
\* its own address added.
C20_LockHeldThroughout ==
    /\ \A t \in Threads : InCoordinator(t) => lock.owner = t
    /\ \A t1, t2 \in Threads :
           (InCoordinator(t1) /\ InCoordinator(t2)) => t1 = t2
    /\ \A t \in Threads :
           /\ (cb[t].pc = "locked" \/ InRun(t)) => handled = cb[t].pre
           /\ cb[t].pc = "return" =>
                  handled \in {cb[t].pre, cb[t].pre \cup {cb[t].address}}

\* a callback for an address waits for the lock while the run of another
\* callback for the same address is at the write
C20_Witness ==
    \E t1, t2 \in Threads :
        /\ t1 # t2
        /\ cb[t1].pc = "Writing" /\ lock.owner = t1
        /\ cb[t2].pc = "dispatched" /\ IsTH(t2)
        /\ Reading(t2).address = cb[t1].address

(***************************************************************************)
(* C21                                                                     *)
(***************************************************************************)
\* process_data is about to receive and print an event
Receiving == pcMain \in {"window", "sweep"} /\ queue # <<>>

\* C21 as stated: whenever the drain loop receives or prints an event, in the
\* observation window and in the final sweep of the teardown, the main
\* thread does not own the session lock.
C21_NeverLockedWhileDraining == Receiving => lock.owner # "main"

\* C21 amended: in the observation window the main thread never owns the
\* session lock, so the drain loop receives and prints while the lock is free
\* or owned by a callback; the final sweep of the teardown receives and
\* prints with the lock owned by the main thread.
C21_LockedOnlyInSweep ==
    /\ pcMain = "window" => lock.owner \in Threads \cup {"free"}
    /\ (Receiving /\ pcMain = "window") => lock.owner # "main"
    /\ (Receiving /\ pcMain = "sweep") => lock.owner = "main"

\* the drain loop has printed an event and is about to receive the next one
\* while a callback owns the lock and is in its protocol run
C21_Witness ==
    /\ pcMain = "window"
    /\ printed # None
    /\ queue # <<>>
    /\ \E t \in Threads : lock.owner = t /\ InRun(t)

(***************************************************************************)
(* C22                                                                     *)
(***************************************************************************)
\* the entry before the attempt at position i of the trace is a Progress
\* event: the event was emitted after the step before and before this one
Announced(trace, i) == i > 1 /\ trace[i - 1].kind = "Progress"

\* C22: in each run a Progress event is emitted before the connect attempt,
\* before the service query, before the characteristic query, before the
\* time computation and before the write, each before its step is attempted.
C22_EveryStepAnnounced ==
    \A t \in Threads :
        \A i \in 1..Len(cb[t].trace) :
            (/\ cb[t].trace[i].kind = "Step"
             /\ cb[t].trace[i].msg \in
                    {"Connecting", "ServiceLookup", "CharacteristicLookup",
                     "ComputeTime", "Writing"}) =>
                Announced(cb[t].trace, i)

\* the part of C22 that holds: the connect attempt and the two queries
C22_LookupsAnnounced ==
    \A t \in Threads :
        \A i \in 1..Len(cb[t].trace) :
            (/\ cb[t].trace[i].kind = "Step"
             /\ cb[t].trace[i].msg \in
                    {"Connecting", "ServiceLookup", "CharacteristicLookup"}) =>
                Announced(cb[t].trace, i)

(***************************************************************************)
(* C23                                                                     *)
(***************************************************************************)
\* the event printed last, then the events waiting, in the order in which
\* the drain loop receives them
Narrative ==
    (IF printed = None THEN <<>> ELSE <<Unwrap(printed)>>) \o queue

\* e comes right after p in one narrative: the next event of the same
\* invocation, or the first event of a later invocation
Follows(p, e) ==
    IF e.run = p.run THEN e.seq = p.seq + 1
    ELSE e.run > p.run /\ e.seq = 1

\* the queue and the printed event form one narrative, each message of a
\* running invocation is the event of its trace with that number, and a
\* successful run ends with the "Sync clock" event of its write
OneNarrative ==
    LET n == Narrative
    IN  /\ \A i \in 1..(Len(n) - 1) :
               /\ Follows(n[i], n[i + 1])
               /\ n[i].event.msg = "Sync clock" => n[i + 1].run # n[i].run
        /\ (printed = None /\ queue # <<>>) => queue[1].seq = 1
        /\ \A t \in Threads :
               LET ev == Events(cb[t].trace)
                   w == writes[cb[t].address]
               IN  /\ cb[t].run # 0 =>
                          \A i \in 1..Len(queue) :
                              queue[i].run = cb[t].run =>
                                  /\ queue[i].seq <= Len(ev)
                                  /\ queue[i].event = ev[queue[i].seq]
                   /\ cb[t].result = Ok =>
                          /\ w # <<>>
                          /\ ev[Len(ev)] =
                                 Progress(cb[t].address, "Sync clock",
                                          <<w[Len(w)].epoch_time,
                                            w[Len(w)].timezone>>)

\* C23: the drain loop consumes the events in the order they were sent; the
\* events of one coordinator invocation appear in their emission order and
\* contiguously, never interleaved with those of another invocation; the
\* last event of a successful run is the Progress event reporting the
\* written epoch and timezone.
C23_OneNarrative == []OneNarrative

\* the drain loop has printed the "Sync clock" event of the first invocation
\* and the first two events of the second invocation are waiting
C23_Witness ==
    /\ printed # None
    /\ Len(queue) >= 2
    /\ Unwrap(printed).run = 1
    /\ Unwrap(printed).event.msg = "Sync clock"
    /\ queue[1].run = 2 /\ queue[1].seq = 1
    /\ queue[2].run = 2 /\ queue[2].seq = 2

(***************************************************************************)
(* C24 (SpecTime)                                                          *)
(***************************************************************************)
\* the magnitude m after its sign: the leading part m / 60, ":", and the rest
\* m % 60 in two digits
SignedHourMinute(diff) ==
    LET m == IF diff >= 0 THEN diff ELSE -diff
    IN  (IF diff >= 0 THEN <<"+">> ELSE <<"-">>)
        \o Decimal(m \div 60) \o <<":">>
        \o <<DecimalDigits[((m % 60) \div 10) + 1], DecimalDigits[((m % 60) % 10) + 1]>>

\* C24: when the offset is committed, the event shows it as a sign, then the
\* magnitude split into a leading part and a two-digit non-negative part, for
\* negative committed offsets as for positive ones; when the adjusted value
\* is discarded, no event is emitted.
C24_SignedOffsetLogged ==
    IsSome(tout) =>
        IF Unwrap(tout).committed
        THEN Unwrap(tout).log = Some(SignedHourMinute(Unwrap(tin.offset_seconds)))
        ELSE Unwrap(tout).log = None

\* the part of C24 that holds: the same for the committed offsets that are
\* not negative, and for the negative ones that are whole multiples of 60
C24_NonNegativeOffsetLogged ==
    IsSome(tout) =>
        IF Unwrap(tout).committed
        THEN (Unwrap(tin.offset_seconds) >= 0 \/ Unwrap(tin.offset_seconds) % 60 = 0) =>
                 Unwrap(tout).log = Some(SignedHourMinute(Unwrap(tin.offset_seconds)))
        ELSE Unwrap(tout).log = None

\* the part of C24 about the place of the event in a run of the session: a
\* run that is past the time computation has sent one "Adjust clock" event,
\* right after the computation, exactly if the offset was committed
C24_OneEventAfterComputeTime ==
    \A t \in Threads :
        cb[t].pc \in {"Writing", "finish", "return"} =>
            LET adjust == SelectSeq(cb[t].trace, LAMBDA x : x.msg = "Adjust clock")
                at == {i \in 1..Len(cb[t].trace) :
                           cb[t].trace[i] = Step(cb[t].address, "ComputeTime")}
            IN  /\ Len(adjust) <= 1
                /\ \A i \in at :
                       /\ Len(adjust) = 1 <=>
                              \E now \in SessionEpochs :
                                  /\ AdjustEpoch(now, cb[t].offset_seconds).committed
                                  /\ AdjustEpoch(now, cb[t].offset_seconds).epoch_time
                                         = cb[t].epoch_time
                       /\ Len(adjust) = 1 => cb[t].trace[i + 1] = adjust[1]
                /\ at = {} => adjust = <<>>

(***************************************************************************)
(* C25                                                                     *)
(***************************************************************************)
\* an address is in the handled set for exactly one reason, omit or a write,
\* and a successful run has written once and inserts its address on return
HandledJustified ==
    /\ \A a \in handled :
           \/ OmitTrue(a) /\ runs[a] = 0 /\ writes[a] = <<>>
           \/ /\ ~OmitTrue(a)
              /\ runs[a] >= 1
              /\ Len(writes[a]) = 1
              /\ \A t \in Threads : InRun(t) => cb[t].address # a
    /\ \A a \in Addresses :
           /\ Len(writes[a]) <= 1
           /\ Len(writes[a]) <= runs[a]
           /\ Cardinality({t \in Threads : cb[t].address = a /\ cb[t].result = Ok}) <= 1
    /\ \A t \in Threads :
           cb[t].result = Ok =>
               /\ Len(writes[cb[t].address]) = 1
               /\ cb[t].pc = "finish" => cb[t].address \notin handled
               /\ cb[t].pc = "return" => cb[t].address \in handled

\* C25: every address in the HandledSet is configured omit = true or has had
\* a successful protocol run; an address has at most one successful run, and
\* at most one successful write of the time, in a session; an address
\* configured omit = true has no run at all.
C25_HandledJustified == []HandledJustified

\* the first run for address 1 has failed, the second has succeeded and the
\* address is handled
C25_Witness ==
    /\ 1 \in handled
    /\ ~OmitTrue(1)
    /\ runs[1] = 2
    /\ Len(writes[1]) = 1

(***************************************************************************)
(* C26                                                                     *)
(***************************************************************************)
\* C26: no log event is lost: after the final sweep of the teardown the queue
\* is empty and stays empty, so every event a callback has sent was received
\* and printed before sync returns.
C26_NothingLost ==
    pcMain \in {"closed", "returned", "exited"} => queue = <<>>

\* the part of C26 that holds: the sweep ends with an empty queue while no
\* callback is in the coordinator, so every event of a callback that had the
\* lock before the main thread took it was received and printed
C26_SweptAtEndOfBlock ==
    [][(pcMain = "sweep" /\ pcMain' # "sweep") =>
           (queue' = <<>> /\ \A t \in Threads : ~InCoordinator(t))]_vars

(***************************************************************************)
(* C27 (SpecLocks)                                                         *)
(***************************************************************************)
Everyone == Threads \cup {"main"}

\* the Mutex the thread asks for at its position, or "none"
Wanted(x) ==
    IF x = "main"
    THEN IF pcMain = "stopping" THEN "session"
         ELSE IF pcMain \in {"window_data", "sweep_data"} THEN "config"
         ELSE "none"
    ELSE IF cb[x].pc = "dispatched" THEN "session"
         ELSE IF cb[x].pc \in {"is_handled", "omit_insert", "ok_insert"} THEN "devices"
         ELSE IF cb[x].pc \in {"is_omit", "read_config"} THEN "config"
         ELSE "none"

OwnerOf(m) ==
    CASE m = "session" -> lock.owner
      [] m = "config" -> mutex.config
      [] m = "devices" -> mutex.devices

\* the thread waits: the Mutex it asks for is owned
Blocked(x) == Wanted(x) # "none" /\ OwnerOf(Wanted(x)) # "free"

\* the thread x waits for
WaitsOn(x) == OwnerOf(Wanted(x))

\* x waits for itself over at most three threads
InCycle(x) ==
    /\ Blocked(x)
    /\ \/ WaitsOn(x) = x
       \/ /\ Blocked(WaitsOn(x))
          /\ \/ WaitsOn(WaitsOn(x)) = x
             \/ /\ Blocked(WaitsOn(WaitsOn(x)))
                /\ WaitsOn(WaitsOn(WaitsOn(x))) = x

\* no threads wait for each other; a guard of config or of devices is held
\* by a callback only under the session lock; a callback that is not at a
\* lock() and has not ended can take its next step: no send waits
NoDeadlock ==
    /\ \A x \in Everyone : ~InCycle(x)
    /\ \A t \in Threads :
           (mutex.config = t \/ mutex.devices = t) => lock.owner = t
    /\ ~(mutex.config = "main" /\ pcMain = "stopping")
    /\ \A t \in Threads :
           (Alive /\ Wanted(t) = "none" /\ cb[t].pc \notin {"idle", "panicked", "poisoned"})
               => ENABLED CallbackStep(t)

\* C27: no threads are blocked on each other, sending to the queue never
\* blocks, the lock() of the teardown returns and the session ends.
C27_DeadlockFreeAndEnds ==
    /\ []NoDeadlock
    /\ <>(pcMain = "exited")

\* the owner of the session lock waits in is_omit for the guard of config,
\* which the main thread holds in process_data
C27_Witness ==
    \E t \in Threads :
        /\ lock.owner = t
        /\ cb[t].pc = "is_omit"
        /\ mutex.config = "main"
        /\ Blocked(t) /\ WaitsOn(t) = "main"

\* the main thread waits at the teardown for the session lock while its
\* owner holds the guard of devices
C27_TeardownWaits ==
    \E t \in Threads :
        /\ pcMain = "stopping"
        /\ lock.owner = t
        /\ mutex.devices = t

====
